---------------------------- MODULE Spec2Model ----------------------------
(***************************************************************************)
(* Meta-Agent Decision Engine: safety layer, confidence estimator, memory  *)
(* system and orchestrator pipeline of the self-healing cloud repository.  *)
(*                                                                         *)
(* Conventions.                                                            *)
(*  - A Python str that the code searches, lower-cases or matches is a     *)
(*    tuple of one-character strings, so that `in`, lower() and the        *)
(*    regular expressions are computed on the characters; a str that is    *)
(*    only compared or stored (sources, agents, messages) is a string.     *)
(*  - A Python dict is a function whose DOMAIN is the set of keys present. *)
(*  - A float in [0,1] is an integer number of hundredths (0.3 is 30);     *)
(*    divisions truncate.                                                  *)
(***************************************************************************)
EXTENDS Integers, Sequences, FiniteSets, TLC

VARIABLES
    sl_cfg,        \* SafetyLayer instance: allowed_actions, min/max replicas
    sl_decision,   \* decision handed to apply_safety_checks
    sl_context,    \* context handed to apply_safety_checks
    sl_result,     \* what apply_safety_checks returned (EmptyDict before)
    sl_pc,         \* "ready" before the call, "checked" after it
    now,           \* the clock read by datetime.now()
    recent_events,       \* ShortTermMemory.recent_events (deque)
    recent_decisions,    \* ShortTermMemory.recent_decisions (deque)
    decision_embeddings, \* LongTermEmbeddings: decision_id -> embedding, metadata
    archives,            \* DecisionArchive.archives, in dict insertion order
    sd_pc,         \* position of the store_decision call in progress
    sd_frame,      \* its locals: decision, context, decision_id, explicit
    returned_ids,  \* history: ids returned by store_decision calls given no id
    archive_log,   \* history: (decision_id, timestamp) of every archive_decision
    installed,     \* the advisors the orchestrator was constructed with
    component_history, \* ConfidenceEstimator.component_history
    pe_pc,         \* position of the process_event call
    pe,            \* its locals, a dict that grows as they are assigned
    trace,         \* history: the pipeline steps taken, in order
    agent_performance, \* AdaptiveRouter.agent_performance: (event_type, agent) -> dict
    perf_heap,     \* the dict objects agent_performance refers to
    callers,       \* the threads inside update_routing_performance
    rq,            \* a router query: the event and what the router returned
    fq,            \* a query made on the memory and what it returned
    writers,       \* the threads inside MetaAgentMemory.store_decision
    st_calls       \* history: the items stored by calls made on ShortTermMemory itself

safetyVars == <<sl_cfg, sl_decision, sl_context, sl_result, sl_pc>>

memoryVars == <<recent_events, recent_decisions, decision_embeddings, archives>>

callVars == <<sd_pc, sd_frame, returned_ids, archive_log>>

routerVars == <<agent_performance, perf_heap, callers, rq>>

sharedVars == <<routerVars, fq, writers, st_calls>>

orchVars == <<installed, component_history, pe_pc, pe, trace, sharedVars>>

-----------------------------------------------------------------------------
(* Python dict and str primitives *)

EmptyDict == [k \in {} |-> 0]

\* d.get(k, default)
Get(d, k, default) == IF k \in DOMAIN d THEN d[k] ELSE default

\* d[k] = v
Put(d, k, v) == [kk \in DOMAIN d \cup {k} |-> IF kk = k THEN v ELSE d[kk]]

\* the dicts that hold key k with a value of Vals, or do not hold it
OptField(k, Vals) == {EmptyDict} \cup {k :> v : v \in Vals}

\* kw in s
IsSubstr(kw, s) ==
    \E i \in 0..(Len(s) - Len(kw)) : SubSeq(s, i + 1, i + Len(kw)) = kw

\* x in list
InList(x, list) == \E i \in 1..Len(list) : list[i] = x

UpperChars == <<"A","B","C","D","E","F","G","H","I","J","K","L","M",
                "N","O","P","Q","R","S","T","U","V","W","X","Y","Z">>

LowerChars == <<"a","b","c","d","e","f","g","h","i","j","k","l","m",
                "n","o","p","q","r","s","t","u","v","w","x","y","z">>

LowerChar(c) ==
    IF \E i \in 1..26 : UpperChars[i] = c
    THEN LowerChars[CHOOSE i \in 1..26 : UpperChars[i] = c]
    ELSE c

\* s.lower()
Lower(s) == [i \in 1..Len(s) |-> LowerChar(s[i])]

\* max(lo, min(hi, x))
Clamp(lo, hi, x) == IF x < lo THEN lo ELSE IF x > hi THEN hi ELSE x

-----------------------------------------------------------------------------
(* Action names *)

restart_pod        == <<"r","e","s","t","a","r","t","_","p","o","d">>
rollback_deployment == <<"r","o","l","l","b","a","c","k","_","d","e","p","l","o","y","m","e","n","t">>
replace_pod        == <<"r","e","p","l","a","c","e","_","p","o","d">>
rebuild_deployment == <<"r","e","b","u","i","l","d","_","d","e","p","l","o","y","m","e","n","t">>
trigger_heal       == <<"t","r","i","g","g","e","r","_","h","e","a","l">>
trigger_code_fix   == <<"t","r","i","g","g","e","r","_","c","o","d","e","_","f","i","x">>
scale_up           == <<"s","c","a","l","e","_","u","p">>
scale_down         == <<"s","c","a","l","e","_","d","o","w","n">>
do_nothing         == <<"d","o","_","n","o","t","h","i","n","g">>
no_action          == <<"n","o","_","a","c","t","i","o","n">>
delete_service     == <<"d","e","l","e","t","e","_","s","e","r","v","i","c","e">>
\* action names outside the code, used as inputs
scale_to_zero      == <<"s","c","a","l","e","_","t","o","_","z","e","r","o">>
DROP_table         == <<"D","R","O","P","_","t","a","b","l","e">>

-----------------------------------------------------------------------------
(* SafetyLayer *)

max_replicas_default == 20
min_replicas_default == 1

default_allowed_actions ==
    <<restart_pod, rollback_deployment, replace_pod, rebuild_deployment,
      trigger_heal, trigger_code_fix, scale_up, scale_down, do_nothing>>

protected_resources ==
    <<<<"d","a","t","a","b","a","s","e">>, <<"s","t","o","r","a","g","e">>, <<"b","a","c","k","u","p">>, <<"c","r","i","t","i","c","a","l","-","s","e","r","v","i","c","e">>>>

dangerous_actions ==
    <<delete_service, <<"d","e","l","e","t","e","_","d","e","p","l","o","y","m","e","n","t">>, <<"d","e","l","e","t","e","_","n","a","m","e","s","p","a","c","e">>,
      <<"d","e","l","e","t","e","_","p","o","d">>, <<"d","r","o","p","_","d","a","t","a","b","a","s","e">>, <<"f","o","r","m","a","t","_","d","i","s","k">>, <<"s","h","u","t","d","o","w","n","_","a","l","l">>>>

deletion_keywords ==
    <<<<"d","e","l","e","t","e">>, <<"r","e","m","o","v","e">>, <<"d","r","o","p">>, <<"d","e","s","t","r","o","y">>, <<"k","i","l","l">>>>

\* unsafe_patterns: each is  head \s+ (tail | tail | ...)
unsafe_patterns ==
    <<[head |-> <<"d","e","l","e","t","e">>,   tails |-> {<<"s","e","r","v","i","c","e">>, <<"d","e","p","l","o","y","m","e","n","t">>, <<"p","o","d">>, <<"n","a","m","e","s","p","a","c","e">>}],
      [head |-> <<"r","m">>,       tails |-> {<<"-","r","f">>}],
      [head |-> <<"f","o","r","m","a","t">>,   tails |-> {<<"d","i","s","k">>}],
      [head |-> <<"s","h","u","t","d","o","w","n">>, tails |-> {<<"a","l","l">>}],
      [head |-> <<"k","i","l","l">>,     tails |-> {<<"a","l","l">>}],
      [head |-> <<"d","r","o","p">>,     tails |-> {<<"d","a","t","a","b","a","s","e">>}],
      [head |-> <<"t","r","u","n","c","a","t","e">>, tails |-> {<<"t","a","b","l","e">>}]>>

\* \s of the regular expressions, for the characters of the inputs
IsSpace(c) == c \in {" ", "\t", "\n"}

\* re.search(pattern, text): head at i, one or more \s, then a tail
ReSearch(pat, text) ==
    \E i \in 1..Len(text) : \E j \in (i + Len(pat.head) + 1)..Len(text) :
        /\ SubSeq(text, i, i + Len(pat.head) - 1) = pat.head
        /\ \A k \in (i + Len(pat.head))..(j - 1) : IsSpace(text[k])
        /\ \E t \in pat.tails : SubSeq(text, j, j + Len(t) - 1) = t

_is_deletion_action(action) ==
    \E i \in 1..Len(deletion_keywords) :
        IsSubstr(deletion_keywords[i], Lower(action))

_contains_unsafe_patterns(text) ==
    \E i \in 1..Len(unsafe_patterns) : ReSearch(unsafe_patterns[i], Lower(text))

\* any(protected in name for protected in self.protected_resources)
IsProtected(sl, name) ==
    \E i \in 1..Len(sl.protected_resources) :
        IsSubstr(sl.protected_resources[i], name)

\* The str values a parameter dict holds.  str(action_params) is the dict's
\* repr: a pattern can only match inside one str value, because the quotes
\* and commas between two values are not \s and the keys and numbers of the
\* inputs hold no pattern.
StrValuesOf(action_params) ==
    {action_params[k] : k \in DOMAIN action_params \cap {"resource_name", "command"}}

\* self._contains_unsafe_patterns(str(action_params))
ParamsUnsafe(action_params) ==
    \E v \in StrValuesOf(action_params) : _contains_unsafe_patterns(v)

\* {"action": action, **action_params}
CorrectedAction(action, action_params) == action_params @@ ("action" :> action)

\* Check 1 of validate_action
NotAllowed(sl, action) == ~InList(action, sl.allowed_actions)

\* validate_action -> (is_safe, error_message, corrected_action)
validate_action(sl, action, action_params) ==
    LET corrected_action == CorrectedAction(action, action_params)
        target_replicas ==
            Get(action_params, "target_replicas", Get(action_params, "replicas", 0))
        Unsafe(msg, corrected) ==
            [is_safe |-> FALSE, error |-> msg, corrected |-> corrected]
    IN  IF NotAllowed(sl, action)
        THEN Unsafe("not in allowed actions list", corrected_action)
        ELSE IF /\ _is_deletion_action(action)
                /\ IsProtected(sl, Lower(Get(action_params, "resource_name", <<>>)))
        THEN Unsafe("Cannot delete protected resource", corrected_action)
        ELSE IF IsSubstr(<<"s","c","a","l","e">>, action) /\ target_replicas > sl.max_replicas
        THEN Unsafe("exceeds maximum",
                    Put(corrected_action, "target_replicas", sl.max_replicas))
        ELSE IF IsSubstr(<<"s","c","a","l","e">>, action) /\ target_replicas < sl.min_replicas
        THEN Unsafe("below minimum",
                    Put(corrected_action, "target_replicas", sl.min_replicas))
        ELSE IF ParamsUnsafe(action_params)
        THEN Unsafe("Action parameters contain unsafe instructions", corrected_action)
        ELSE IF InList(action, dangerous_actions)
        THEN Unsafe("Dangerous action is not allowed", corrected_action)
        ELSE [is_safe |-> TRUE, error |-> "", corrected |-> corrected_action]

\* mutant of SanitizedAction: an unsafe decision is forced to do_nothing
SanitizedAction_DoNothing(corrected) == do_nothing

\* sanitized["action"] = corrected.get("action", "do_nothing")
SanitizedAction(corrected) == Get(corrected, "action", do_nothing)

\* sanitized["confidence"] = max(0.0, min(1.0, float(confidence)))
SanitizedConfidence(d) == Clamp(0, 100, Get(d, "confidence", 50))

\* the n characters of text from i on, lower-cased; fewer when text ends
LowerAt(text, i, n) ==
    Lower(SubSeq(text, i, IF i + n - 1 > Len(text) THEN Len(text) ELSE i + n - 1))

\* where a match of the pattern that starts at i ends (0: no match at i); the
\* match is case-insensitive and takes all the \s after the head
MatchEnd(pat, text, i) ==
    LET after == i + Len(pat.head)
        spaces == {k \in after..Len(text) : \A m \in after..k : IsSpace(text[m])}
        j == after + Cardinality(spaces)
        tails == {t \in pat.tails : LowerAt(text, j, Len(t)) = t}
    IN  IF /\ LowerAt(text, i, Len(pat.head)) = pat.head
           /\ spaces # {}
           /\ tails # {}
        THEN j + Len(CHOOSE t \in tails : TRUE) - 1
        ELSE 0

\* re.sub(pattern, "[REMOVED]", text, flags=re.IGNORECASE), from position i on
RECURSIVE ReSubFrom(_, _, _)
ReSubFrom(pat, text, i) ==
    IF i > Len(text) THEN <<>>
    ELSE IF MatchEnd(pat, text, i) > 0
         THEN <<"[","R","E","M","O","V","E","D","]">> \o ReSubFrom(pat, text, MatchEnd(pat, text, i) + 1)
         ELSE <<text[i]>> \o ReSubFrom(pat, text, i + 1)

\* the loop of _sanitize_text over the first n patterns
RECURSIVE RemovePatterns(_, _)
RemovePatterns(text, n) ==
    IF n = 0 THEN text
    ELSE ReSubFrom(unsafe_patterns[n], RemovePatterns(text, n - 1), 1)

\* _sanitize_text, for a str: the patterns removed, then cut to 2000 characters
_sanitize_text(text) ==
    LET removed == RemovePatterns(text, Len(unsafe_patterns))
    IN  IF Len(removed) > 2000 THEN SubSeq(removed, 1, 2000) \o <<".",".",".">> ELSE removed

\* if key in sanitized: sanitized[key] = self._sanitize_text(sanitized[key])
SanitizedField(d, key) == IF key \in DOMAIN d THEN Put(d, key, _sanitize_text(d[key])) ELSE d

sanitize_output(sl, output) ==
    LET action == Get(output, "action", <<>>)
        action_params == Get(output, "action_params", EmptyDict)
        v == validate_action(sl, action, action_params)
        s1 == IF ~v.is_safe
              THEN Put(Put(Put(Put(output,
                       "action", SanitizedAction(v.corrected)),
                       "action_params", v.corrected),
                       "safety_corrected", TRUE),
                       "safety_warning", v.error)
              ELSE Put(output, "safety_corrected", FALSE)
        s2 == Put(s1, "confidence", SanitizedConfidence(s1))
    IN  SanitizedField(SanitizedField(s2, "reasoning"), "explanation")

\* safe_decision["action_params"]["target_replicas"] = bound, with the
\* safety_corrected flag and the warning; KeyError when the decision holds no
\* "action_params"
LimitScaling(d, bound, warning) ==
    IF "action_params" \notin DOMAIN d
    THEN [raised |-> "KeyError"]
    ELSE Put(Put(Put(d,
             "action_params", Put(d.action_params, "target_replicas", bound)),
             "safety_corrected", TRUE),
             "safety_warning", warning)

\* mutant of CheckScalingLimits: the maximum is not enforced
CheckScalingLimits_NoMaximum(sl, d, context) ==
    LET current_replicas == Get(context, "current_replicas", 1)
        target_replicas ==
            Get(Get(d, "action_params", EmptyDict), "target_replicas", current_replicas)
    IN  IF /\ IsSubstr(<<"s","c","a","l","e">>, Get(d, "action", <<>>))
           /\ target_replicas < sl.min_replicas
        THEN LimitScaling(d, sl.min_replicas, "Scaling limited to minimum")
        ELSE d

\* the scaling block of apply_safety_checks; target_replicas is read once,
\* before either correction
CheckScalingLimits(sl, d, context) ==
    LET action == Get(d, "action", <<>>)
        action_params == Get(d, "action_params", EmptyDict)
        current_replicas == Get(context, "current_replicas", 1)
        target_replicas == Get(action_params, "target_replicas", current_replicas)
        d1 == IF target_replicas > sl.max_replicas
              THEN LimitScaling(d, sl.max_replicas, "Scaling limited to maximum")
              ELSE d
        d2 == IF "raised" \in DOMAIN d1 THEN d1
              ELSE IF target_replicas < sl.min_replicas
              THEN LimitScaling(d1, sl.min_replicas, "Scaling limited to minimum")
              ELSE d1
    IN  IF IsSubstr(<<"s","c","a","l","e">>, action) THEN d2 ELSE d

\* mutant of CheckProtectedResources: the resource name is not lower-cased
CheckProtectedResources_CaseSensitive(sl, d, action, action_params) ==
    LET resource_name == Get(action_params, "resource_name", <<>>)
    IN  IF /\ resource_name # <<>>
           /\ IsProtected(sl, resource_name)
           /\ _is_deletion_action(action)
        THEN Put(Put(Put(d, "action", do_nothing),
                 "safety_corrected", TRUE),
                 "safety_warning", "Cannot delete protected resource")
        ELSE d

\* the protected-resource block of apply_safety_checks; action and
\* action_params are the values read before the scaling block
CheckProtectedResources(sl, d, action, action_params) ==
    LET resource_name == Get(action_params, "resource_name", <<>>)
    IN  IF /\ resource_name # <<>>
           /\ IsProtected(sl, Lower(resource_name))
           /\ _is_deletion_action(action)
        THEN Put(Put(Put(d, "action", do_nothing),
                 "safety_corrected", TRUE),
                 "safety_warning", "Cannot delete protected resource")
        ELSE d

\* mutant of IsSafeOf: every checked decision is reported safe
IsSafeOf_AlwaysSafe(d) == TRUE

\* safe_decision["is_safe"] = not safe_decision.get("safety_corrected", False)
IsSafeOf(d) == ~Get(d, "safety_corrected", FALSE)

\* Add safety metadata
AddSafetyMetadata(d) == Put(Put(d, "safety_checked", TRUE), "is_safe", IsSafeOf(d))

apply_safety_checks(sl, decision, context) ==
    LET safe_decision == sanitize_output(sl, decision)
        action == Get(safe_decision, "action", <<>>)
        action_params == Get(safe_decision, "action_params", EmptyDict)
        d1 == CheckScalingLimits(sl, safe_decision, context)
    IN  IF "raised" \in DOMAIN d1 THEN d1
        ELSE AddSafetyMetadata(CheckProtectedResources(sl, d1, action, action_params))

-----------------------------------------------------------------------------
(* Inputs of the safety layer *)

\* SafetyLayer(allowed_actions, max_replicas, min_replicas): the defaults,
\* an allow-list that also admits delete_service, and a narrower range
SafetyLayers ==
    {[allowed_actions |-> a, max_replicas |-> r[2], min_replicas |-> r[1],
      protected_resources |-> protected_resources] :
        a \in {default_allowed_actions, Append(default_allowed_actions, delete_service)},
        r \in {<<min_replicas_default, max_replicas_default>>, <<2, 10>>}}

DefaultSafetyLayer ==
    [allowed_actions |-> default_allowed_actions,
     max_replicas |-> max_replicas_default, min_replicas |-> min_replicas_default,
     protected_resources |-> protected_resources]

SafetyActionInputs ==
    {restart_pod, scale_up, scale_down, do_nothing, no_action, delete_service,
     scale_to_zero, DROP_table}

ReplicaInputs == {0, 5, 50}

ResourceNameInputs ==
    {<<"p","r","o","d","-","d","a","t","a","b","a","s","e","-","b","a","c","k","u","p">>, <<"W","e","b","-","S","T","O","R","A","G","E">>, <<"f","r","o","n","t","e","n","d">>}

CommandInputs == {<<"r","m"," "," ","-","r","f"," ","/">>}

ActionParamInputs ==
    {t @@ r @@ n @@ c :
        t \in OptField("target_replicas", ReplicaInputs),
        r \in OptField("replicas", {5, 50}),
        n \in OptField("resource_name", ResourceNameInputs),
        c \in OptField("command", CommandInputs)}

ConfidenceInputs == {-20, 70, 150}

\* the free-text fields of a decision
TextFieldInputs ==
    {[reasoning |-> <<"f","i","r","s","t"," ","r","m"," "," ","-","r","f"," ","/","v","a","r",","," ","t","h","e","n"," ","r","e","s","t","a","r","t">>],
     [reasoning |-> <<"p","o","d"," ","i","s"," ","c","r","a","s","h"," ","l","o","o","p","i","n","g">>],
     [explanation |-> <<"D","R","O","P"," ","D","A","T","A","B","A","S","E"," ","p","r","o","d">>]}

\* decisions that carry a free-text field, with or without a command
TextDecisionInputs ==
    {("action" :> a) @@ p @@ t :
        a \in SafetyActionInputs,
        p \in OptField("action_params", {[command |-> c] : c \in CommandInputs}),
        t \in TextFieldInputs}

SafetyDecisionInputs ==
    {("action" :> a) @@ p @@ c :
        a \in SafetyActionInputs,
        p \in OptField("action_params", ActionParamInputs),
        c \in OptField("confidence", ConfidenceInputs)}
    \cup TextDecisionInputs

SafetyContextInputs == OptField("current_replicas", {50})

SafetyIdle ==
    /\ sl_cfg = DefaultSafetyLayer
    /\ sl_decision = EmptyDict
    /\ sl_context = EmptyDict
    /\ sl_result = EmptyDict
    /\ sl_pc = "idle"

SafetyInit ==
    /\ sl_cfg \in SafetyLayers
    /\ sl_decision \in SafetyDecisionInputs
    /\ sl_context \in SafetyContextInputs
    /\ sl_result = EmptyDict
    /\ sl_pc = "ready"

\* one call of SafetyLayer.apply_safety_checks(decision, context)
ApplySafetyChecks ==
    /\ sl_pc = "ready"
    /\ sl_result' = apply_safety_checks(sl_cfg, sl_decision, sl_context)
    /\ sl_pc' = "checked"
    /\ UNCHANGED <<sl_cfg, sl_decision, sl_context>>

-----------------------------------------------------------------------------
(* Memory system *)

\* bounds of the model
ArchiveMaxSize == 2
ShortTermMaxEvents == 2
ShortTermMaxDecisions == 2
EmbeddingDim == 6
MaxTime == 2
MaxStores == 4

\* mutant of DequeAppend: a full deque refuses the new item
DequeAppend_DropNewest(q, x, maxlen) ==
    IF Len(q) >= maxlen THEN q ELSE Append(q, x)

\* deque(maxlen=n).append(x)
DequeAppend(q, x, maxlen) ==
    IF maxlen = 0 THEN q
    ELSE IF Len(q) >= maxlen THEN Append(Tail(q), x)
    ELSE Append(q, x)

\* ShortTermMemory.store_event / store_decision: stamp stored_at, append
Stamped(d, t) == Put(d, "stored_at", t)

\* f"decision_{len(self.decision_archive.archives)}_{datetime.now().isoformat()}"
GeneratedId(arch, t) == <<"decision", Len(arch), t>>

\* an id handed in by the caller
ExplicitIds == {<<"given", 0, 0>>}

\* hash(action) % 1000, fixed for the life of the process
ActionHash(action) == (Len(action) * 37) % 1000

\* the five features of _generate_embedding, in hundredths
Features(decision, context) ==
    <<ActionHash(Get(decision, "action", no_action)) \div 10,
      Get(decision, "confidence", 0),
      Get(context, "cpu_usage", 0),
      Get(context, "memory_usage", 0),
      Get(context, "error_rate", 0)>>

\* np.random.normal(0, 0.1, n): the draws the model distinguishes
NoiseValues == {-10, 10}

NoiseVectors(n) == IF n <= 0 THEN {<<>>} ELSE [1..n -> NoiseValues]

\* _generate_embedding: the features padded with noise, or cut, to dim
GeneratedEmbeddings(decision, context, dim) ==
    LET f == Features(decision, context)
    IN  IF Len(f) < dim
        THEN {f \o padding : padding \in NoiseVectors(dim - Len(f))}
        ELSE {SubSeq(f, 1, dim)}

\* store_decision_embedding: pad with zeros or cut to embedding_dim
Resized(embedding, dim) ==
    IF Len(embedding) < dim
    THEN embedding \o [i \in 1..(dim - Len(embedding)) |-> 0]
    ELSE SubSeq(embedding, 1, dim)

\* position of key id in an insertion-ordered dict (0 when absent)
IndexOf(seq, id) ==
    IF \E i \in 1..Len(seq) : seq[i].decision_id = id
    THEN CHOOSE i \in 1..Len(seq) : seq[i].decision_id = id
    ELSE 0

\* dict[id] = entry: a present key keeps its place, a new one goes last
DictSet(seq, id, entry) ==
    IF IndexOf(seq, id) > 0
    THEN [seq EXCEPT ![IndexOf(seq, id)] = entry]
    ELSE Append(seq, entry)

\* the elements of seq at the positions of keep, in order
RECURSIVE Filter(_, _)
Filter(seq, keep) ==
    IF seq = <<>> THEN <<>>
    ELSE LET rest == Filter(Tail(seq), {i - 1 : i \in keep \ {1}})
         IN  IF 1 \in keep THEN <<Head(seq)>> \o rest ELSE rest

store_decision_embedding(emb, id, embedding, metadata, dim) ==
    DictSet(emb, id, [decision_id |-> id,
                      embedding |-> Resized(embedding, dim),
                      metadata |-> metadata])

\* place of entry i in sorted(archives.items(), key=timestamp): the sort is
\* stable, so equal timestamps stay in insertion order
SortRank(arch, i) ==
    Cardinality({j \in 1..Len(arch) :
        \/ arch[j].timestamp < arch[i].timestamp
        \/ (arch[j].timestamp = arch[i].timestamp /\ j < i)})

\* mutant of EnforceMaxSize: the last entries of the sort are deleted
EnforceMaxSize_EvictNewest(arch, max_size) ==
    IF Len(arch) > max_size
    THEN Filter(arch, {i \in 1..Len(arch) : SortRank(arch, i) < max_size})
    ELSE arch

\* Enforce max size: delete the first len - max_size entries of the sort
EnforceMaxSize(arch, max_size) ==
    IF Len(arch) > max_size
    THEN Filter(arch, {i \in 1..Len(arch) : SortRank(arch, i) >= Len(arch) - max_size})
    ELSE arch

ArchiveEntry(id, decision, context, t) ==
    [decision_id |-> id, timestamp |-> t, decision |-> decision,
     context |-> context, outcome |-> <<>>, success |-> "None"]

\* DecisionArchive.archive_decision
archive_decision(arch, id, decision, context, t, max_size) ==
    EnforceMaxSize(DictSet(arch, id, ArchiveEntry(id, decision, context, t)), max_size)

MemoryDecisionInputs == {[action |-> restart_pod, confidence |-> 80]}

MemoryContextInputs == {[type |-> <<"p","o","d","_","c","r","a","s","h">>, cpu_usage |-> 90]}

NoFrame == [decision |-> EmptyDict, context |-> EmptyDict,
            decision_id |-> <<"none", 0, 0>>, explicit |-> FALSE]

MemoryIdle ==
    /\ now = 0
    /\ recent_events = <<>>
    /\ recent_decisions = <<>>
    /\ decision_embeddings = <<>>
    /\ archives = <<>>
    /\ sd_pc = "idle"
    /\ sd_frame = NoFrame
    /\ returned_ids = <<>>
    /\ archive_log = <<>>

\* time passes between two reads of the clock
Tick ==
    /\ now < MaxTime
    /\ now' = now + 1
    /\ UNCHANGED <<memoryVars, callVars>>

\* store_decision, lines 425-426: take the given id or generate one
StoreDecisionBegin(decision, context, given) ==
    /\ sd_pc = "idle"
    /\ sd_frame' = [decision |-> decision, context |-> context,
                    decision_id |-> IF given = <<>> THEN GeneratedId(archives, now)
                                    ELSE given[1],
                    explicit |-> given # <<>>]
    /\ sd_pc' = "short_term"
    /\ UNCHANGED <<now, memoryVars, returned_ids, archive_log>>

\* store_decision, line 429: short_term.store_decision(decision); the stamp
\* is written into the decision object the other stores will hold
StoreDecisionShortTerm ==
    /\ sd_pc = "short_term"
    /\ LET d == Stamped(sd_frame.decision, now)
       IN  /\ recent_decisions' = DequeAppend(recent_decisions, d, ShortTermMaxDecisions)
           /\ sd_frame' = [sd_frame EXCEPT !.decision = d]
    /\ sd_pc' = "embed"
    /\ UNCHANGED <<now, recent_events, decision_embeddings, archives,
                   returned_ids, archive_log>>

\* store_decision, lines 432-439: generate and store the embedding
StoreDecisionEmbed ==
    /\ sd_pc = "embed"
    /\ \E e \in GeneratedEmbeddings(sd_frame.decision, sd_frame.context, EmbeddingDim) :
           decision_embeddings' =
               store_decision_embedding(decision_embeddings, sd_frame.decision_id, e,
                   [decision |-> sd_frame.decision, context |-> sd_frame.context],
                   EmbeddingDim)
    /\ sd_pc' = "archive"
    /\ UNCHANGED <<now, recent_events, recent_decisions, archives, sd_frame,
                   returned_ids, archive_log>>

\* store_decision, line 442: archive_decision(decision_id, decision, context)
StoreDecisionArchive ==
    /\ sd_pc = "archive"
    /\ archives' = archive_decision(archives, sd_frame.decision_id, sd_frame.decision,
                                    sd_frame.context, now, ArchiveMaxSize)
    /\ archive_log' = Append(archive_log,
                             [decision_id |-> sd_frame.decision_id, timestamp |-> now])
    /\ sd_pc' = "return"
    /\ UNCHANGED <<now, recent_events, recent_decisions, decision_embeddings,
                   sd_frame, returned_ids>>

\* store_decision, line 444: return decision_id
StoreDecisionReturn ==
    /\ sd_pc = "return"
    /\ returned_ids' = IF sd_frame.explicit THEN returned_ids
                       ELSE Append(returned_ids, sd_frame.decision_id)
    /\ sd_pc' = "returned"

\* a caller of MetaAgentMemory.store_decision(decision, context[, decision_id])
CallStoreDecision ==
    /\ Len(archive_log) < MaxStores
    /\ \E d \in MemoryDecisionInputs, c \in MemoryContextInputs,
          g \in {<<>>} \cup {<<id>> : id \in ExplicitIds} :
           StoreDecisionBegin(d, c, g)
    /\ UNCHANGED <<safetyVars, orchVars>>

\* the caller takes the returned id
StoreDecisionDone ==
    /\ StoreDecisionReturn
    /\ UNCHANGED <<now, memoryVars, sd_frame, archive_log>>

StoreDecisionReturned ==
    /\ sd_pc = "returned"
    /\ sd_pc' = "idle"
    /\ sd_frame' = NoFrame
    /\ UNCHANGED <<now, memoryVars, returned_ids, archive_log, safetyVars, orchVars>>

MemoryNext ==
    \/ CallStoreDecision
    \/ (StoreDecisionShortTerm /\ UNCHANGED <<safetyVars, orchVars>>)
    \/ (StoreDecisionEmbed /\ UNCHANGED <<safetyVars, orchVars>>)
    \/ (StoreDecisionArchive /\ UNCHANGED <<safetyVars, orchVars>>)
    \/ (StoreDecisionDone /\ UNCHANGED <<safetyVars, orchVars>>)
    \/ StoreDecisionReturned
    \/ (Tick /\ UNCHANGED <<safetyVars, orchVars>>)

-----------------------------------------------------------------------------
(* ShortTermMemory called directly: store_event and store_decision *)

\* number of store_event and store_decision calls made on one ShortTermMemory
MaxShortTermCalls == 6

\* the events handed to store_event, a fresh dict at every call
ShortTermEventInputs == {[type |-> <<"p","o","d","_","c","r","a","s","h">>], [type |-> <<"o","v","e","r","l","o","a","d">>]}

\* no call was made on the short-term memory yet
NoShortTermCalls == [events |-> <<>>, decisions |-> <<>>]

\* ShortTermMemory.store_event
StoreEvent ==
    /\ Len(st_calls.events) + Len(st_calls.decisions) < MaxShortTermCalls
    /\ \E event \in ShortTermEventInputs :
         LET e == Stamped(event, now)
         IN  /\ recent_events' = DequeAppend(recent_events, e, ShortTermMaxEvents)
             /\ st_calls' = [st_calls EXCEPT !.events = Append(@, e)]
    /\ UNCHANGED <<now, recent_decisions, decision_embeddings, archives, callVars>>

\* ShortTermMemory.store_decision
StoreRecentDecision ==
    /\ Len(st_calls.events) + Len(st_calls.decisions) < MaxShortTermCalls
    /\ \E decision \in MemoryDecisionInputs :
         LET d == Stamped(decision, now)
         IN  /\ recent_decisions' = DequeAppend(recent_decisions, d, ShortTermMaxDecisions)
             /\ st_calls' = [st_calls EXCEPT !.decisions = Append(@, d)]
    /\ UNCHANGED <<now, recent_events, decision_embeddings, archives, callVars>>

-----------------------------------------------------------------------------
(* MetaAgentMemory.store_decision called from several threads.  The class   *)
(* holds no lock: a thread may be preempted between any two statements, and  *)
(* each of the steps below is one dict or deque operation.                   *)

\* number of threads that store decisions into one MetaAgentMemory
MemoryThreads == 2

\* number of store_decision calls each of them makes
WriterCalls == 2

Writers == 1..MemoryThreads

NoWriterFrame ==
    [pc |-> "idle", calls |-> 0, decision |-> EmptyDict, context |-> EmptyDict,
     decision_id |-> <<"none", 0, 0>>, timestamp |-> 0,
     sorted_entries |-> <<>>, todo |-> <<>>, raised |-> FALSE]

WritersIdle == writers = [w \in Writers |-> NoWriterFrame]

\* seq[:n] of Python: a negative n counts from the end
PySlice(seq, n) ==
    IF n >= 0
    THEN SubSeq(seq, 1, IF n < Len(seq) THEN n ELSE Len(seq))
    ELSE SubSeq(seq, 1, IF Len(seq) + n > 0 THEN Len(seq) + n ELSE 0)

\* the keys of sorted(self.archives.items(), key=timestamp), in order
SortedIds(arch) ==
    [r \in 1..Len(arch) |->
        arch[CHOOSE i \in 1..Len(arch) : SortRank(arch, i) = r - 1].decision_id]

\* del self.archives[old_id]
DictDel(seq, id) == Filter(seq, {i \in 1..Len(seq) : seq[i].decision_id # id})

\* the thread calls store_decision(decision, context, decision_id) with an id
\* of its own
WriterCall(w) ==
    /\ writers[w].pc = "idle"
    /\ writers[w].calls < WriterCalls
    /\ \E d \in MemoryDecisionInputs, c \in MemoryContextInputs :
           writers' = [writers EXCEPT ![w].pc = "short_term",
                                      ![w].decision = d,
                                      ![w].context = c,
                                      ![w].decision_id = <<"given", w, writers[w].calls + 1>>]
    /\ UNCHANGED <<now, memoryVars, callVars>>

\* line 429: self.short_term.store_decision(decision)
WriterShortTerm(w) ==
    /\ writers[w].pc = "short_term"
    /\ LET d == Stamped(writers[w].decision, now)
       IN  /\ recent_decisions' = DequeAppend(recent_decisions, d, ShortTermMaxDecisions)
           /\ writers' = [writers EXCEPT ![w].pc = "embed", ![w].decision = d]
    /\ UNCHANGED <<now, recent_events, decision_embeddings, archives, callVars>>

\* lines 432-439: generate the embedding and store it in the index
WriterEmbed(w) ==
    /\ writers[w].pc = "embed"
    /\ \E e \in GeneratedEmbeddings(writers[w].decision, writers[w].context, EmbeddingDim) :
           decision_embeddings' =
               store_decision_embedding(decision_embeddings, writers[w].decision_id, e,
                   [decision |-> writers[w].decision, context |-> writers[w].context],
                   EmbeddingDim)
    /\ writers' = [writers EXCEPT ![w].pc = "entry"]
    /\ UNCHANGED <<now, recent_events, recent_decisions, archives, callVars>>

\* archive_decision, lines 274-281: build the entry, reading the clock
WriterEntry(w) ==
    /\ writers[w].pc = "entry"
    /\ writers' = [writers EXCEPT ![w].pc = "insert", ![w].timestamp = now]
    /\ UNCHANGED <<now, memoryVars, callVars>>

\* line 283: self.archives[decision_id] = archive_entry
WriterInsert(w) ==
    /\ writers[w].pc = "insert"
    /\ archives' = DictSet(archives, writers[w].decision_id,
                           ArchiveEntry(writers[w].decision_id, writers[w].decision,
                                        writers[w].context, writers[w].timestamp))
    /\ archive_log' = Append(archive_log, [decision_id |-> writers[w].decision_id,
                                           timestamp |-> writers[w].timestamp])
    /\ writers' = [writers EXCEPT ![w].pc = "test"]
    /\ UNCHANGED <<now, recent_events, recent_decisions, decision_embeddings,
                   sd_pc, sd_frame, returned_ids>>

\* line 286: if len(self.archives) > self.max_size
WriterTest(w) ==
    /\ writers[w].pc = "test"
    /\ writers' = [writers EXCEPT ![w].pc =
                      IF Len(archives) > ArchiveMaxSize THEN "sort" ELSE "return"]
    /\ UNCHANGED <<now, memoryVars, callVars>>

\* lines 288-291: sorted_entries = sorted(self.archives.items(), ...)
WriterSort(w) ==
    /\ writers[w].pc = "sort"
    /\ writers' = [writers EXCEPT ![w].pc = "slice",
                                  ![w].sorted_entries = SortedIds(archives)]
    /\ UNCHANGED <<now, memoryVars, callVars>>

\* line 292: sorted_entries[:len(self.archives) - self.max_size], the length
\* read again
WriterSlice(w) ==
    /\ writers[w].pc = "slice"
    /\ writers' = [writers EXCEPT
           ![w].pc = "del",
           ![w].todo = PySlice(writers[w].sorted_entries, Len(archives) - ArchiveMaxSize)]
    /\ UNCHANGED <<now, memoryVars, callVars>>

\* line 293: del self.archives[old_id]; KeyError when the key is gone
WriterDelete(w) ==
    /\ writers[w].pc = "del"
    /\ writers[w].todo # <<>>
    /\ IF IndexOf(archives, Head(writers[w].todo)) > 0
       THEN /\ archives' = DictDel(archives, Head(writers[w].todo))
            /\ writers' = [writers EXCEPT ![w].todo = Tail(writers[w].todo)]
       ELSE /\ archives' = archives
            /\ writers' = [writers EXCEPT ![w].pc = "idle",
                                          ![w].calls = writers[w].calls + 1,
                                          ![w].raised = TRUE]
    /\ UNCHANGED <<now, recent_events, recent_decisions, decision_embeddings, callVars>>

\* the loop of line 292 is exhausted
WriterLoopEnd(w) ==
    /\ writers[w].pc = "del"
    /\ writers[w].todo = <<>>
    /\ writers' = [writers EXCEPT ![w].pc = "return"]
    /\ UNCHANGED <<now, memoryVars, callVars>>

\* line 444: return decision_id
WriterReturn(w) ==
    /\ writers[w].pc = "return"
    /\ writers' = [writers EXCEPT ![w].pc = "idle", ![w].calls = writers[w].calls + 1]
    /\ UNCHANGED <<now, memoryVars, callVars>>

-----------------------------------------------------------------------------
(* Decision router *)

\* EventType and AgentType values
EventTypes == {"error", "crash", "overload", "anomaly", "attack", "unknown"}

code_agent         == "code_agent"
self_healing_agent == "self_healing_agent"
scaling_agent      == "scaling_agent"
monitoring_agent   == "monitoring_agent"
security_agent     == "security_agent"

\* DecisionRouter._initialize_routing_map
routing_map ==
    [error |-> code_agent, crash |-> self_healing_agent, overload |-> scaling_agent,
     anomaly |-> monitoring_agent, attack |-> security_agent]

\* mutant of classify_event: the type string is not lower-cased
classify_event_CaseSensitive(event) ==
    LET event_type_str == Get(event, "type", <<>>)
        Has(kw) == IsSubstr(kw, event_type_str)
    IN  IF Has(<<"e","r","r","o","r">>) \/ Has(<<"c","o","d","e","_","e","r","r","o","r">>) THEN "error"
        ELSE IF Has(<<"c","r","a","s","h">>) \/ Has(<<"p","o","d","_","c","r","a","s","h">>) \/ Has(<<"f","a","i","l","u","r","e">>) THEN "crash"
        ELSE IF Has(<<"o","v","e","r","l","o","a","d">>) \/ Has(<<"h","i","g","h","_","l","o","a","d">>) \/ Has(<<"r","e","s","o","u","r","c","e","_","e","x","h","a","u","s","t","i","o","n">>)
        THEN "overload"
        ELSE IF Has(<<"a","n","o","m","a","l","y">>) \/ Has(<<"u","n","u","s","u","a","l">>) THEN "anomaly"
        ELSE IF Has(<<"a","t","t","a","c","k">>) \/ Has(<<"s","e","c","u","r","i","t","y">>) \/ Has(<<"b","r","e","a","c","h">>) THEN "attack"
        ELSE "unknown"

\* DecisionRouter.classify_event: the first branch with a keyword in the
\* lower-cased type string
classify_event(event) ==
    LET event_type_str == Lower(Get(event, "type", <<>>))
        Has(kw) == IsSubstr(kw, event_type_str)
    IN  IF Has(<<"e","r","r","o","r">>) \/ Has(<<"c","o","d","e","_","e","r","r","o","r">>) THEN "error"
        ELSE IF Has(<<"c","r","a","s","h">>) \/ Has(<<"p","o","d","_","c","r","a","s","h">>) \/ Has(<<"f","a","i","l","u","r","e">>) THEN "crash"
        ELSE IF Has(<<"o","v","e","r","l","o","a","d">>) \/ Has(<<"h","i","g","h","_","l","o","a","d">>) \/ Has(<<"r","e","s","o","u","r","c","e","_","e","x","h","a","u","s","t","i","o","n">>)
        THEN "overload"
        ELSE IF Has(<<"a","n","o","m","a","l","y">>) \/ Has(<<"u","n","u","s","u","a","l">>) THEN "anomaly"
        ELSE IF Has(<<"a","t","t","a","c","k">>) \/ Has(<<"s","e","c","u","r","i","t","y">>) \/ Has(<<"b","r","e","a","c","h">>) THEN "attack"
        ELSE "unknown"

\* mutant of route_event: an unknown event is routed with full confidence
route_event_UnknownFullConfidence(event) ==
    LET event_type == classify_event(event)
        target_agent == IF event_type = "unknown" THEN self_healing_agent
                        ELSE routing_map[event_type]
    IN  [event_type |-> event_type,
         target_agent |-> target_agent,
         routing_confidence |-> 100]

\* DecisionRouter.route_event
route_event(event) ==
    LET event_type == classify_event(event)
        target_agent == IF event_type = "unknown" THEN self_healing_agent
                        ELSE routing_map[event_type]
    IN  [event_type |-> event_type,
         target_agent |-> target_agent,
         routing_confidence |-> IF event_type # "unknown" THEN 100 ELSE 50]

-----------------------------------------------------------------------------
(* Confidence estimator; every factor in hundredths *)

RECURSIVE Sum(_)
Sum(seq) == IF seq = <<>> THEN 0 ELSE Head(seq) + Sum(Tail(seq))

\* np.mean of a non-empty sequence
Mean(seq) == Sum(seq) \div Len(seq)

\* roots are searched below this value, whose square is a machine integer
SqrtLimit == 40000

\* the largest r in lo..hi with r * r <= n, by bisection
RECURSIVE SqrtBetween(_, _, _)
SqrtBetween(lo, hi, n) ==
    IF lo >= hi THEN lo
    ELSE LET mid == (lo + hi + 1) \div 2
         IN  IF mid * mid <= n THEN SqrtBetween(mid, hi, n)
             ELSE SqrtBetween(lo, mid - 1, n)

\* the integer square root
ISqrt(n) == SqrtBetween(0, IF n > SqrtLimit THEN SqrtLimit ELSE n, n)

\* np.std: the population standard deviation, sqrt(n * sum(x^2) - sum(x)^2) / n
Std(seq) ==
    LET n == Len(seq)
        squares == [i \in 1..n |-> seq[i] * seq[i]]
    IN  ISqrt(n * Sum(squares) - Sum(seq) * Sum(seq)) \div n

Confidences(recommendations) ==
    [i \in 1..Len(recommendations) |-> Get(recommendations[i], "confidence", 0)]

\* Counter(actions).most_common(1)[0][1]
MostCommonCount(actions) ==
    LET Count(a) == Cardinality({i \in 1..Len(actions) : actions[i] = a})
    IN  CHOOSE c \in 1..Len(actions) :
            /\ \E i \in 1..Len(actions) : Count(actions[i]) = c
            /\ \A i \in 1..Len(actions) : Count(actions[i]) <= c

_calculate_model_agreement(recommendations) ==
    IF Len(recommendations) <= 1 THEN 100
    ELSE LET actions == [i \in 1..Len(recommendations) |->
                            Get(recommendations[i], "action", <<"u","n","k","n","o","w","n">>)]
             agreement == (MostCommonCount(actions) * 100) \div Len(actions)
             confidence_std == Std(Confidences(recommendations))
             alignment_factor == 100 - (IF confidence_std > 100 THEN 100 ELSE confidence_std)
         IN  (agreement + alignment_factor) \div 2

\* successes / count of the sources that have a history; 0.5 when none has
_get_historical_accuracy(history, recommendations) ==
    LET known == {i \in 1..Len(recommendations) :
                    /\ Get(recommendations[i], "source", "unknown") \in DOMAIN history
                    /\ history[Get(recommendations[i], "source", "unknown")].count > 0}
        Accuracy(i) ==
            LET hist == history[Get(recommendations[i], "source", "unknown")]
            IN  (hist.successes * 100) \div hist.count
        accuracies == Filter([i \in 1..Len(recommendations) |->
                                 IF i \in known THEN Accuracy(i) ELSE 0], known)
    IN  IF recommendations = <<>> THEN 50
        ELSE IF accuracies # <<>> THEN Mean(accuracies)
        ELSE 50

\* component_weights is None (EmptyDict here) or a dict source -> weight
_calculate_weighted_confidence(recommendations, component_weights) ==
    LET Weight(r) == Get(component_weights, Get(r, "source", "unknown"), 100)
        weighted_sum == Sum([i \in 1..Len(recommendations) |->
                               Get(recommendations[i], "confidence", 0)
                                   * Weight(recommendations[i])])
        total_weight == Sum([i \in 1..Len(recommendations) |-> Weight(recommendations[i])])
    IN  IF recommendations = <<>> THEN 0
        ELSE IF component_weights # EmptyDict /\ total_weight > 0
        THEN weighted_sum \div total_weight
        ELSE Mean(Confidences(recommendations))

\* the five factors combined with weights 0.3, 0.3, 0.2, 0.1, 0.1
CombinedConfidence(agreement, accuracy, complexity, risk, weighted) ==
    (agreement * 30 + accuracy * 30 + complexity * 20 + risk * 10 + weighted * 10)
        \div 100

\* mutant of ClampUnit: the combined value is returned as it is
ClampUnit_Unclamped(confidence) == confidence

\* confidence = max(0.0, min(1.0, confidence))
ClampUnit(confidence) == Clamp(0, 100, confidence)

\* ConfidenceEstimator.estimate_confidence -> (confidence, details)
estimate_confidence(history, recommendations, situation_complexity, risk_score, component_weights) ==
    LET agreement_score == _calculate_model_agreement(recommendations)
        historical_accuracy == _get_historical_accuracy(history, recommendations)
        complexity_factor == 100 - situation_complexity
        risk_factor == 100 - risk_score
        weighted_confidence ==
            _calculate_weighted_confidence(recommendations, component_weights)
        confidence == ClampUnit(CombinedConfidence(agreement_score, historical_accuracy,
                          complexity_factor, risk_factor, weighted_confidence))
    IN  IF recommendations = <<>>
        THEN [confidence |-> 0, details |-> [reason |-> "No recommendations"]]
        ELSE [confidence |-> confidence,
              details |-> [agreement_score |-> agreement_score,
                           historical_accuracy |-> historical_accuracy,
                           complexity_factor |-> complexity_factor,
                           risk_factor |-> risk_factor,
                           weighted_confidence |-> weighted_confidence,
                           final_confidence |-> confidence,
                           situation_complexity |-> situation_complexity,
                           risk_score |-> risk_score]]

-----------------------------------------------------------------------------
(* Orchestrator: the functions of process_event *)

Advisors == {"rl", "gnn", "transformers", "llm"}

\* an advisor call that was not made, one that raised, one that returned
NotCalled == [kind |-> "none"]
Raises == [kind |-> "raises"]
Returns(v) == [kind |-> "returns", value |-> v]

\* the conditions under which _gather_intelligence calls an advisor
IsCalled(advisor, configured, event) ==
    /\ advisor \in configured
    /\ advisor = "gnn" => Get(event, "dependency_graph", <<>>) # <<>>
    /\ advisor = "transformers" => "historical_metrics" \in DOMAIN event

\* _gather_intelligence: an advisor that raised leaves no entry
_gather_intelligence(outcome) ==
    LET Returned(advisor) == outcome[advisor].kind = "returns"
    IN  (IF Returned("rl")
         THEN "rl" :> [action |-> outcome["rl"].value.action,
                       confidence |-> outcome["rl"].value.confidence,
                       source |-> "rl_agent"]
         ELSE EmptyDict)
        @@ (IF Returned("gnn")
            THEN "gnn" :> [failure_propagation |-> outcome["gnn"].value, source |-> "gnn"]
            ELSE EmptyDict)
        @@ (IF Returned("transformers")
            THEN "transformers" :> [forecast |-> outcome["transformers"].value,
                                    source |-> "transformers"]
            ELSE EmptyDict)
        @@ (IF Returned("llm")
            THEN "llm" :> Put(outcome["llm"].value, "source", "llm_reasoning")
            ELSE EmptyDict)

\* a forecast series is a Python list or a numpy array
Series(kind, items) == [kind |-> kind, items |-> items]
NoSeries == Series("None", <<>>)

\* bool(x) as `if x:` computes it: "raise" is the ValueError numpy raises for
\* an array of more than one element
Truth(x) ==
    IF x.kind = "None" THEN "false"
    ELSE IF x.kind = "list" THEN (IF x.items # <<>> THEN "true" ELSE "false")
    ELSE IF Len(x.items) > 1 THEN "raise"
    ELSE IF x.items # <<>> /\ x.items[1] # 0 THEN "true"
    ELSE "false"

\* first item with the largest value: max(items, key=value)
FirstMax(values) ==
    CHOOSE i \in 1..Len(values) :
        /\ \A j \in 1..Len(values) : values[j] <= values[i]
        /\ \A j \in 1..(i - 1) : values[j] < values[i]

Probabilities(failure_probs) == [i \in 1..Len(failure_probs) |-> failure_probs[i][2]]

severity_map == [low |-> 20, medium |-> 50, high |-> 80, critical |-> 100]

\* _calculate_risk_score -> [value] or [raised]
_calculate_risk_score(event, intelligence) ==
    LET severity == Get(event, "severity", "medium")
        severity_risk == (Get(severity_map, severity, 50) * 40) \div 100
        failure_probs == Get(Get(intelligence, "gnn", EmptyDict), "failure_propagation", <<>>)
        gnn_risk == IF failure_probs # <<>>
                    THEN (Mean(Probabilities(failure_probs)) * 30) \div 100 ELSE 0
        forecast == Get(Get(intelligence, "transformers", EmptyDict), "forecast", EmptyDict)
        error_burst == Get(forecast, "error_burst", NoSeries)
        risk == severity_risk + gnn_risk
    IN  IF Truth(error_burst) = "raise" THEN [raised |-> "ValueError"]
        ELSE IF Truth(error_burst) = "false" THEN [value |-> IF risk > 100 THEN 100 ELSE risk]
        ELSE IF error_burst.kind = "list" THEN [raised |-> "TypeError"]
        ELSE LET r == IF \E i \in 1..Len(error_burst.items) : error_burst.items[i] > 50
                      THEN risk + 30 ELSE risk
             IN  [value |-> IF r > 100 THEN 100 ELSE r]

\* _assess_complexity
_assess_complexity(event, intelligence) ==
    LET failure_probs == Get(Get(intelligence, "gnn", EmptyDict), "failure_propagation", <<>>)
        c1 == IF Cardinality(DOMAIN intelligence) > 2 THEN 30 ELSE 0
        c2 == IF Get(event, "failure_count", 0) > 1 THEN 30 ELSE 0
        c3 == IF failure_probs # <<>>
              THEN (Probabilities(failure_probs)[FirstMax(Probabilities(failure_probs))] * 40)
                       \div 100
              ELSE 0
    IN  IF c1 + c2 + c3 > 100 THEN 100 ELSE c1 + c2 + c3

\* the recommendations _choose_best_action collects, in its order: rl, llm,
\* gnn, transformers; [raised] when the forecast cannot be tested
Recommendations(intelligence) ==
    LET llm == Get(intelligence, "llm", EmptyDict)
        failure_probs == Get(Get(intelligence, "gnn", EmptyDict), "failure_propagation", <<>>)
        forecast == Get(Get(intelligence, "transformers", EmptyDict), "forecast", EmptyDict)
        cpu_forecast == Get(forecast, "cpu_forecast", NoSeries)
        avg_cpu == Mean(cpu_forecast.items)
        from_rl == IF "rl" \in DOMAIN intelligence THEN <<intelligence["rl"]>> ELSE <<>>
        from_llm == IF "llm" \in DOMAIN intelligence
                    THEN <<[action |-> Get(llm, "action", no_action),
                            confidence |-> Get(llm, "confidence", 50),
                            source |-> "llm_reasoning",
                            reasoning |-> Get(llm, "reasoning", <<>>)]>>
                    ELSE <<>>
        from_gnn == IF failure_probs # <<>>
                    THEN <<[action |-> trigger_heal,
                            confidence |-> failure_probs[FirstMax(Probabilities(failure_probs))][2],
                            source |-> "gnn",
                            reasoning |-> failure_probs[FirstMax(Probabilities(failure_probs))][1]]>>
                    ELSE <<>>
        from_transformers ==
            IF Truth(cpu_forecast) = "true" /\ avg_cpu > 80
            THEN <<[action |-> scale_up,
                    confidence |-> IF avg_cpu > 100 THEN 100 ELSE avg_cpu,
                    source |-> "transformers",
                    reasoning |-> <<"C","P","U"," ","f","o","r","e","c","a","s","t","e","d"," ","t","o"," ","b","e"," ","h","i","g","h">>]>>
            ELSE <<>>
    IN  IF Truth(cpu_forecast) = "raise" THEN [raised |-> "ValueError"]
        ELSE [value |-> from_rl \o from_llm \o from_gnn \o from_transformers]

\* _choose_best_action -> the decision, or [raised]
_choose_best_action(event, intelligence, routing) ==
    LET collected == Recommendations(intelligence)
        recommendations == collected.value
        best_rec == recommendations[FirstMax(Confidences(recommendations))]
        risk_score == _calculate_risk_score(event, intelligence)
    IN  IF "raised" \in DOMAIN collected THEN collected
        ELSE IF recommendations = <<>>
        THEN [action |-> do_nothing, confidence |-> 0,
              recommendations |-> <<>>, risk_score |-> 50]
        ELSE IF "raised" \in DOMAIN risk_score THEN risk_score
        ELSE [action |-> Get(best_rec, "action", no_action),
              confidence |-> Get(best_rec, "confidence", 50),
              recommendations |-> recommendations,
              risk_score |-> risk_score.value,
              target_agent |-> routing.target_agent]

\* rollback_plan: None
NoRollback == EmptyDict

Step(n, action, duration) == [step |-> n, action |-> action, duration |-> duration]

\* mutant of _coordinate_recovery_plan: the rebuild total leaves out the
\* rollback_if_needed step
_coordinate_recovery_plan_ShortTotal(decision) ==
    LET action == Get(decision, "action", no_action)
    IN  IF action = restart_pod
        THEN [steps |-> <<Step(1, "identify_failed_pod", 5), Step(2, "restart_pod", 30),
                          Step(3, "verify_health", 60)>>,
              estimated_duration |-> 95, rollback_plan |-> NoRollback]
        ELSE IF action = scale_up
        THEN [steps |-> <<Step(1, "calculate_target_replicas", 5),
                          Step(2, "scale_deployment", 60),
                          Step(3, "verify_scaling", 120)>>,
              estimated_duration |-> 185, rollback_plan |-> NoRollback]
        ELSE IF action = rebuild_deployment
        THEN [steps |-> <<Step(1, "backup_current_state", 30),
                          Step(2, "rebuild_deployment", 180),
                          Step(3, "verify_deployment", 120),
                          Step(4, "rollback_if_needed", 60)>>,
              estimated_duration |-> 330, rollback_plan |-> [action |-> "restore_backup", duration |-> 120]]
        ELSE [steps |-> <<Step(1, "monitor_situation", 60)>>,
              estimated_duration |-> 60, rollback_plan |-> NoRollback]

\* _coordinate_recovery_plan
_coordinate_recovery_plan(decision) ==
    LET action == Get(decision, "action", no_action)
    IN  IF action = restart_pod
        THEN [steps |-> <<Step(1, "identify_failed_pod", 5), Step(2, "restart_pod", 30),
                          Step(3, "verify_health", 60)>>,
              estimated_duration |-> 95, rollback_plan |-> NoRollback]
        ELSE IF action = scale_up
        THEN [steps |-> <<Step(1, "calculate_target_replicas", 5),
                          Step(2, "scale_deployment", 60),
                          Step(3, "verify_scaling", 120)>>,
              estimated_duration |-> 185, rollback_plan |-> NoRollback]
        ELSE IF action = rebuild_deployment
        THEN [steps |-> <<Step(1, "backup_current_state", 30),
                          Step(2, "rebuild_deployment", 180),
                          Step(3, "verify_deployment", 120),
                          Step(4, "rollback_if_needed", 60)>>,
              estimated_duration |-> 390, rollback_plan |-> [action |-> "restore_backup", duration |-> 120]]
        ELSE [steps |-> <<Step(1, "monitor_situation", 60)>>,
              estimated_duration |-> 60, rollback_plan |-> NoRollback]

\* _execute_through_agent: the action handed to the agent
_execute_through_agent(agent_type, decision, t) ==
    [agent |-> agent_type, action |-> Get(decision, "action", <<>>),
     status |-> "executed", timestamp |-> t]

-----------------------------------------------------------------------------
(* AdaptiveRouter.update_routing_performance, called from several threads *)

\* number of threads that report an outcome at the same time
RouterThreads == 2

Threads == 1..RouterThreads

\* a fresh AdaptiveRouter, no caller, no query
RouterIdle ==
    /\ agent_performance = <<>>
    /\ perf_heap = <<>>
    /\ callers = <<>>
    /\ rq = EmptyDict

\* position of key in the insertion-ordered dict agent_performance (0: absent)
PerfIndex(perf, key) ==
    IF \E i \in 1..Len(perf) : perf[i].key = key
    THEN CHOOSE i \in 1..Len(perf) : perf[i].key = key
    ELSE 0

\* the key all callers report on
ReportedKey == <<"crash", self_healing_agent>>

\* the counter a caller increments after count
FlagOf(success) == IF success THEN "successes" ELSE "failures"

\* every thread calls update_routing_performance(CRASH, SELF_HEALING_AGENT, success)
ThreadsInit ==
    /\ agent_performance = <<>>
    /\ perf_heap = <<>>
    /\ callers \in [Threads -> {[pc |-> "test", key |-> ReportedKey, success |-> b,
                                 perf |-> 0, tmp |-> 0] : b \in BOOLEAN}]
    /\ rq = EmptyDict

\* line 189: if key not in self.agent_performance
TestKey ==
    \E t \in Threads :
        /\ callers[t].pc = "test"
        /\ callers' = [callers EXCEPT ![t].pc =
                          IF PerfIndex(agent_performance, callers[t].key) = 0
                          THEN "insert" ELSE "fetch"]
        /\ UNCHANGED <<agent_performance, perf_heap, rq>>

\* lines 190-194: self.agent_performance[key] = a new dict of zeros
InsertEntry ==
    \E t \in Threads :
        /\ callers[t].pc = "insert"
        /\ perf_heap' = Append(perf_heap, [successes |-> 0, failures |-> 0, count |-> 0])
        /\ LET i == PerfIndex(agent_performance, callers[t].key)
               entry == [key |-> callers[t].key, perf |-> Len(perf_heap) + 1]
           IN  agent_performance' = IF i = 0 THEN Append(agent_performance, entry)
                                    ELSE [agent_performance EXCEPT ![i] = entry]
        /\ callers' = [callers EXCEPT ![t].pc = "fetch"]
        /\ UNCHANGED rq

\* line 196: perf = self.agent_performance[key]
FetchEntry ==
    \E t \in Threads :
        /\ callers[t].pc = "fetch"
        /\ callers' = [callers EXCEPT
               ![t].perf = agent_performance[PerfIndex(agent_performance, callers[t].key)].perf,
               ![t].pc = "load_count"]
        /\ UNCHANGED <<agent_performance, perf_heap, rq>>

\* line 197, perf["count"] += 1: the value is loaded ...
LoadCount ==
    \E t \in Threads :
        /\ callers[t].pc = "load_count"
        /\ callers' = [callers EXCEPT ![t].tmp = perf_heap[callers[t].perf].count,
                                      ![t].pc = "store_count"]
        /\ UNCHANGED <<agent_performance, perf_heap, rq>>

\* ... and the sum is stored
StoreCount ==
    \E t \in Threads :
        /\ callers[t].pc = "store_count"
        /\ perf_heap' = [perf_heap EXCEPT ![callers[t].perf].count = callers[t].tmp + 1]
        /\ callers' = [callers EXCEPT ![t].pc = "load_flag"]
        /\ UNCHANGED <<agent_performance, rq>>

\* lines 198-201, perf["successes"] += 1 or perf["failures"] += 1: load ...
LoadFlag ==
    \E t \in Threads :
        /\ callers[t].pc = "load_flag"
        /\ callers' = [callers EXCEPT
               ![t].tmp = perf_heap[callers[t].perf][FlagOf(callers[t].success)],
               ![t].pc = "store_flag"]
        /\ UNCHANGED <<agent_performance, perf_heap, rq>>

\* ... and store; the call returns
StoreFlag ==
    \E t \in Threads :
        /\ callers[t].pc = "store_flag"
        /\ perf_heap' = [perf_heap EXCEPT
               ![callers[t].perf][FlagOf(callers[t].success)] = callers[t].tmp + 1]
        /\ callers' = [callers EXCEPT ![t].pc = "done"]
        /\ UNCHANGED <<agent_performance, rq>>

-----------------------------------------------------------------------------
(* AdaptiveRouter called from one thread: reports, then queries.  A success  *)
(* rate is the pair <<successes, count>>, compared as the quotient is.       *)

\* number of outcome reports made to one router
MaxReports == 2

RatioGt(a, b) == a[1] * b[2] > b[1] * a[2]

RatioEq(a, b) == a[1] * b[2] = b[1] * a[2]

\* AdaptiveRouter.update_routing_performance, run without interference
update_routing_performance(perf, heap, key, success) ==
    LET inserted == PerfIndex(perf, key) > 0
        perf1 == IF inserted THEN perf
                 ELSE Append(perf, [key |-> key, perf |-> Len(heap) + 1])
        heap1 == IF inserted THEN heap
                 ELSE Append(heap, [successes |-> 0, failures |-> 0, count |-> 0])
        ref == perf1[PerfIndex(perf1, key)].perf
        old == heap1[ref]
    IN  [agent_performance |-> perf1,
         perf_heap |-> [heap1 EXCEPT ![ref] =
             [count |-> old.count + 1,
              successes |-> IF success THEN old.successes + 1 ELSE old.successes,
              failures |-> IF success THEN old.failures ELSE old.failures + 1]]]

\* self.routing_map.get(event_type, AgentType.SELF_HEALING_AGENT)
DefaultAgent(event_type) ==
    IF event_type \in DOMAIN routing_map THEN routing_map[event_type]
    ELSE self_healing_agent

\* the loop over self.agent_performance.items() from entry i on, best being
\* the pair (best_agent, best_score) so far
RECURSIVE BestFrom(_, _, _, _, _)
BestFrom(perf, heap, event_type, i, best) ==
    IF i > Len(perf) THEN best
    ELSE LET p == heap[perf[i].perf]
             success_rate == <<p.successes, p.count>>
         IN  IF perf[i].key[1] = event_type /\ p.count > 0
                /\ RatioGt(success_rate, best.best_score)
             THEN BestFrom(perf, heap, event_type, i + 1,
                           [best_agent |-> perf[i].key[2], best_score |-> success_rate])
             ELSE BestFrom(perf, heap, event_type, i + 1, best)

\* AdaptiveRouter.route_event
adaptive_route_event(perf, heap, event) ==
    LET event_type == classify_event(event)
        default_agent == DefaultAgent(event_type)
        best == BestFrom(perf, heap, event_type, 1,
                         [best_agent |-> default_agent, best_score |-> <<0, 1>>])
        rerouted == RatioGt(best.best_score, <<7, 10>>) /\ best.best_agent # default_agent
    IN  [event_type |-> event_type,
         target_agent |-> IF rerouted THEN best.best_agent ELSE default_agent,
         routing_confidence |-> IF rerouted THEN best.best_score
                                ELSE IF event_type # "unknown" THEN <<1, 1>> ELSE <<1, 2>>,
         adaptive |-> TRUE]

\* the keys outcomes are reported for
ReportedEventTypes == {"crash", "unknown"}

ReportedAgents == {self_healing_agent, scaling_agent}

\* the events the router is queried with
RouterEventInputs == {[type |-> <<"p","o","d","_","c","r","a","s","h">>], [type |-> <<"m","y","s","t","e","r","y">>], EmptyDict}

\* a caller reports the outcome of a routing
ReportOutcome ==
    /\ Len(perf_heap) = 0 \/ Sum([i \in 1..Len(perf_heap) |-> perf_heap[i].count]) < MaxReports
    /\ \E et \in ReportedEventTypes, agent \in ReportedAgents, success \in BOOLEAN :
           LET r == update_routing_performance(agent_performance, perf_heap,
                                               <<et, agent>>, success)
           IN  /\ agent_performance' = r.agent_performance
               /\ perf_heap' = r.perf_heap
    /\ UNCHANGED <<callers, rq>>

\* a caller asks the adaptive router for a route
AdaptiveRouteEvent ==
    /\ \E event \in RouterEventInputs :
           rq' = [event |-> event,
                  routing |-> adaptive_route_event(agent_performance, perf_heap, event)]
    /\ UNCHANGED <<agent_performance, perf_heap, callers>>

\* the events the static router is asked about: one per branch of
\* classify_event, types with two keywords, capitals, a second field, no type
TypedEventInputs ==
    {[type |-> t] : t \in {<<"c","o","d","e","_","e","r","r","o","r">>, <<"p","o","d","_","c","r","a","s","h">>, <<"n","o","d","e","_","f","a","i","l","u","r","e">>, <<"o","v","e","r","l","o","a","d">>,
                           <<"h","i","g","h","_","l","o","a","d">>, <<"r","e","s","o","u","r","c","e","_","e","x","h","a","u","s","t","i","o","n">>, <<"a","n","o","m","a","l","y">>,
                           <<"a","t","t","a","c","k">>, <<"u","n","k","n","o","w","n","_","x","y","z">>, <<"c","r","a","s","h","_","e","r","r","o","r">>,
                           <<"o","v","e","r","l","o","a","d","_","f","a","i","l","u","r","e">>, <<"P","o","d","_","C","r","a","s","h">>}}
        \cup {[type |-> <<"p","o","d","_","c","r","a","s","h">>, severity |-> "high"], EmptyDict}

\* a caller asks the static router for a route
RouteEventCall ==
    /\ \E event \in TypedEventInputs :
           rq' = [event |-> event, routing |-> route_event(event)]
    /\ UNCHANGED <<agent_performance, perf_heap, callers>>

\* a caller asks for the class of an event
ClassifyEventCall ==
    /\ \E event \in TypedEventInputs :
           rq' = [event |-> event, event_type |-> classify_event(event)]
    /\ UNCHANGED <<agent_performance, perf_heap, callers>>

\* "resource" in str(event).lower(): in a key of the event or in a str value
MentionsResource(event) ==
    \/ DOMAIN event \cap {"resource", "resource_name"} # {}
    \/ \E k \in DOMAIN event \cap {"type", "resource", "resource_name"} :
           IsSubstr(<<"r","e","s","o","u","r","c","e">>, Lower(event[k]))

\* DecisionRouter.get_supporting_agents, which AdaptiveRouter inherits;
\* routing_map.get(event_type) is None for an unknown event
get_supporting_agents(event) ==
    LET event_type == classify_event(event)
        primary_agent == IF event_type \in DOMAIN routing_map THEN routing_map[event_type]
                         ELSE "None"
        first == IF primary_agent # monitoring_agent THEN <<monitoring_agent>> ELSE <<>>
        second == IF /\ Get(event, "severity", "None") \in {"high", "critical"}
                     /\ primary_agent # security_agent
                  THEN <<security_agent>> ELSE <<>>
        third == IF event_type = "crash" /\ MentionsResource(event)
                 THEN <<scaling_agent>> ELSE <<>>
    IN  first \o second \o third

\* the events whose supporting agents are asked for
SupportEventInputs ==
    {[type |-> <<"p","o","d","_","c","r","a","s","h">>],
     [type |-> <<"p","o","d","_","c","r","a","s","h">>, severity |-> "high"],
     [type |-> <<"p","o","d","_","c","r","a","s","h">>, resource |-> <<"m","e","m","o","r","y">>],
     [type |-> <<"a","t","t","a","c","k">>, severity |-> "critical"],
     [type |-> <<"a","n","o","m","a","l","y">>],
     [type |-> <<"u","n","k","n","o","w","n","_","x","y","z">>, severity |-> "low"]}

\* a caller routes an event, with the static or the adaptive route_event, and
\* asks for its supporting agents
SupportingAgentsCall ==
    /\ \E event \in SupportEventInputs, adaptive \in BOOLEAN :
           rq' = [event |-> event,
                  routing |-> IF adaptive
                              THEN adaptive_route_event(agent_performance, perf_heap, event)
                              ELSE route_event(event),
                  supporting |-> get_supporting_agents(event)]
    /\ UNCHANGED <<agent_performance, perf_heap, callers>>

-----------------------------------------------------------------------------
(* LongTermEmbeddings.find_similar_decisions.  Vector components are in      *)
(* hundredths, normalized components and similarities in thousandths.        *)

\* largest top_k a caller asks for
MaxTopK == 3

\* np.linalg.norm
Norm(v) == ISqrt(Sum([i \in 1..Len(v) |-> v[i] * v[i]]))

\* v / (np.linalg.norm(v) + 1e-8): the zero vector stays zero
Normalized(v) ==
    LET n == Norm(v)
    IN  [i \in 1..Len(v) |-> IF n = 0 THEN 0 ELSE (v[i] * 1000) \div n]

\* np.dot(query_norm, emb_norm)
CosineSimilarity(query_embedding, embedding) ==
    LET query_norm == Normalized(query_embedding)
        emb_norm == Normalized(embedding)
    IN  Sum([i \in 1..Len(emb_norm) |-> query_norm[i] * emb_norm[i]]) \div 1000

\* place of tuple i after similarities.sort(key=lambda x: x[1], reverse=True):
\* the sort is stable, reverse=True included
SimilarityRank(similarities, i) ==
    Cardinality({j \in 1..Len(similarities) :
        \/ similarities[j][2] > similarities[i][2]
        \/ (similarities[j][2] = similarities[i][2] /\ j < i)})

\* mutant of SortedBySimilarity: an ascending sort, then reversed
SortedBySimilarity_ReversedTies(similarities) ==
    [r \in 1..Len(similarities) |->
        similarities[CHOOSE i \in 1..Len(similarities) :
            Cardinality({j \in 1..Len(similarities) :
                \/ similarities[j][2] > similarities[i][2]
                \/ (similarities[j][2] = similarities[i][2] /\ j > i)}) = r - 1]]

\* similarities.sort(key=lambda x: x[1], reverse=True)
SortedBySimilarity(similarities) ==
    [r \in 1..Len(similarities) |->
        similarities[CHOOSE i \in 1..Len(similarities) :
            SimilarityRank(similarities, i) = r - 1]]

\* LongTermEmbeddings.find_similar_decisions
find_similar_decisions(emb, query_embedding, top_k) ==
    IF emb = <<>> THEN <<>>
    ELSE LET similarities ==
                 [i \in 1..Len(emb) |->
                     <<emb[i].decision_id,
                       CosineSimilarity(query_embedding, emb[i].embedding),
                       emb[i].metadata>>]
         IN  PySlice(SortedBySimilarity(similarities), top_k)

\* the ids embeddings are stored under
SimilarIds == {<<"given", 1, 0>>, <<"given", 2, 0>>, <<"given", 3, 0>>}

\* the vectors handed to store_decision_embedding, shorter than embedding_dim
EmbeddingInputs == {<<100, 0>>, <<200, 0>>, <<-100, 100>>}

\* the query vectors, of embedding_dim components
QueryInputs == {Resized(q, EmbeddingDim) : q \in {<<100, 100>>, <<0, 0>>}}

\* a caller stores an embedding in the index
StoreDecisionEmbedding ==
    /\ \E id \in SimilarIds, e \in EmbeddingInputs :
           decision_embeddings' =
               store_decision_embedding(decision_embeddings, id, e,
                   [decision |-> EmptyDict, context |-> EmptyDict], EmbeddingDim)
    /\ UNCHANGED <<now, recent_events, recent_decisions, archives, callVars, fq>>

\* a caller asks for the top_k decisions similar to a query
FindSimilarDecisions ==
    /\ \E q \in QueryInputs, k \in 0..MaxTopK :
           fq' = [query_embedding |-> q, top_k |-> k,
                  result |-> find_similar_decisions(decision_embeddings, q, k)]
    /\ UNCHANGED <<now, memoryVars, callVars>>

-----------------------------------------------------------------------------
(* ShortTermMemory read back: get_recent_events and get_recent_decisions *)

\* largest limit a caller asks for
MaxLimit == 2

\* seq[-n:] of Python for n >= 0: -0 is 0, so seq[-0:] is the whole list
PyLast(seq, n) ==
    IF n = 0 THEN seq
    ELSE SubSeq(seq, IF Len(seq) > n THEN Len(seq) - n + 1 ELSE 1, Len(seq))

\* [e for e in events if e.get("type") == event_type]
OfType(events, event_type) ==
    Filter(events, {i \in 1..Len(events) : Get(events[i], "type", <<>>) = event_type})

\* ShortTermMemory.get_recent_events; no event_type is the empty tuple
get_recent_events(events, event_type, limit) ==
    PyLast(IF event_type # <<>> THEN OfType(events, event_type) ELSE events, limit)

\* ShortTermMemory.get_recent_decisions
get_recent_decisions(decisions, limit) == PyLast(decisions, limit)

\* the event types a caller asks for, none included
EventTypeInputs == {<<>>, <<"p","o","d","_","c","r","a","s","h">>}

\* a caller of ShortTermMemory.get_recent_events(event_type, limit)
GetRecentEvents ==
    /\ \E event_type \in EventTypeInputs, limit \in 0..MaxLimit :
           fq' = [call |-> "get_recent_events", event_type |-> event_type,
                  limit |-> limit,
                  result |-> get_recent_events(recent_events, event_type, limit)]
    /\ UNCHANGED <<now, memoryVars, callVars, st_calls>>

\* a caller of ShortTermMemory.get_recent_decisions(limit)
GetRecentDecisions ==
    /\ \E limit \in 0..MaxLimit :
           fq' = [call |-> "get_recent_decisions", limit |-> limit,
                  result |-> get_recent_decisions(recent_decisions, limit)]
    /\ UNCHANGED <<now, memoryVars, callVars, st_calls>>

-----------------------------------------------------------------------------
(* MetaAgentMemory called by one caller: store_decision, then the feedback   *)
(* call update_decision_outcome and the lookup retrieve_similar_decisions.   *)
(* The calls are made within one reading of the clock.                       *)

\* the outcomes reported back for a decision
OutcomeInputs == {[status |-> "recovered"]}

\* the success flags reported back, as Python prints them
SuccessInputs == {"True", "False"}

\* mutant of update_decision_outcome: success is left as it was
update_decision_outcome_KeepsSuccess(arch, id, outcome, success) ==
    IF IndexOf(arch, id) > 0
    THEN [arch EXCEPT ![IndexOf(arch, id)] = [@ EXCEPT !.outcome = outcome]]
    ELSE arch

\* MetaAgentMemory.update_decision_outcome
update_decision_outcome(arch, id, outcome, success) ==
    IF IndexOf(arch, id) > 0
    THEN [arch EXCEPT ![IndexOf(arch, id)] =
              [@ EXCEPT !.outcome = outcome, !.success = success]]
    ELSE arch

\* the loop of retrieve_similar_decisions: archived["similarity"] = similarity
\* on the dict get_decision returned, which is the archive's own entry
RECURSIVE SimilarityWritten(_, _)
SimilarityWritten(arch, similar) ==
    IF similar = <<>> THEN arch
    ELSE LET i == IndexOf(arch, Head(similar)[1])
         IN  SimilarityWritten(
                 IF i > 0
                 THEN [arch EXCEPT ![i] = Put(@, "similarity", Head(similar)[2])]
                 ELSE arch,
                 Tail(similar))

\* MetaAgentMemory.retrieve_similar_decisions: the entries it returns
retrieve_similar_decisions(arch, similar) ==
    LET after == SimilarityWritten(arch, similar)
        found == Filter(similar, {i \in 1..Len(similar) : IndexOf(arch, similar[i][1]) > 0})
    IN  [j \in 1..Len(found) |-> after[IndexOf(after, found[j][1])]]

\* the ids of an insertion-ordered dict
KeySet(seq) == {seq[i].decision_id : i \in 1..Len(seq)}

\* the state a call found, kept with the record of the call
Before ==
    [archives |-> archives, decision_embeddings |-> decision_embeddings,
     recent_events |-> recent_events, recent_decisions |-> recent_decisions]

\* a caller of MetaAgentMemory.store_decision(decision, context, decision_id)
\* that numbers its decisions
RecallStoreDecision ==
    /\ \E id \in SimilarIds, decision \in MemoryDecisionInputs,
          context \in MemoryContextInputs :
         LET d == Stamped(decision, now)
         IN  /\ id[2] = Len(decision_embeddings) + 1
             /\ recent_decisions' = DequeAppend(recent_decisions, d, ShortTermMaxDecisions)
             /\ \E e \in GeneratedEmbeddings(d, context, EmbeddingDim) :
                    decision_embeddings' =
                        store_decision_embedding(decision_embeddings, id, e,
                            [decision |-> d, context |-> context], EmbeddingDim)
             /\ archives' = archive_decision(archives, id, d, context, now, ArchiveMaxSize)
    /\ fq' = EmptyDict
    /\ UNCHANGED <<now, recent_events, callVars>>

\* a caller of MetaAgentMemory.update_decision_outcome(decision_id, outcome, success)
UpdateDecisionOutcome ==
    /\ \E id \in SimilarIds, outcome \in OutcomeInputs, success \in SuccessInputs :
         /\ archives' = update_decision_outcome(archives, id, outcome, success)
         /\ fq' = [call |-> "update_decision_outcome", decision_id |-> id,
                   outcome |-> outcome, success |-> success, before |-> Before]
    /\ UNCHANGED <<now, recent_events, recent_decisions, decision_embeddings, callVars>>

\* a caller of MetaAgentMemory.retrieve_similar_decisions(decision, context, top_k)
RetrieveSimilarDecisions ==
    /\ \E decision \in MemoryDecisionInputs, context \in MemoryContextInputs,
          top_k \in 1..MaxTopK :
         \E q \in GeneratedEmbeddings(decision, context, EmbeddingDim) :
           LET similar == find_similar_decisions(decision_embeddings, q, top_k)
           IN  /\ archives' = SimilarityWritten(archives, similar)
               /\ fq' = [call |-> "retrieve_similar_decisions", top_k |-> top_k,
                         similar |-> similar,
                         result |-> retrieve_similar_decisions(archives, similar),
                         before |-> Before]
    /\ UNCHANGED <<now, recent_events, recent_decisions, decision_embeddings, callVars>>

-----------------------------------------------------------------------------
(* Orchestrator: process_event, one action per statement of its body *)

\* events handed to process_event
EventInputs ==
    {[type |-> <<"p","o","d","_","c","r","a","s","h">>, severity |-> "high", failure_count |-> 2,
      dependency_graph |-> <<"svc-a", "svc-b">>, historical_metrics |-> <<90, 95>>,
      cpu_usage |-> 90],
     [type |-> <<"u","n","k","n","o","w","n","_","x","y","z">>]}

\* what a called advisor may return.  rl_agent.choose_action is unpacked into
\* (action, confidence); confidences are not restricted to [0, 1]
RLReturns ==
    {[action |-> restart_pod, confidence |-> 80],
     [action |-> scale_up, confidence |-> 500],
     [action |-> scale_down, confidence |-> 80],
     [action |-> delete_service, confidence |-> -900]}

\* predict_failure_propagation: service -> probability, in dict order
GNNReturns == {<<>>, <<<<"svc-a", 90>>, <<"svc-b", 90>>>>}

\* forecast_5min of ScalingForecastEngine returns numpy arrays of five values;
\* a forecaster may also be one that returns lists
ForecastReturns ==
    {[cpu_forecast |-> Series("ndarray", <<90, 90, 90, 90, 90>>),
      error_burst |-> Series("ndarray", <<10, 10, 10, 10, 10>>)],
     [cpu_forecast |-> Series("ndarray", <<10, 10, 10, 10, 10>>),
      error_burst |-> Series("ndarray", <<10, 10, 10, 10, 10>>)],
     [cpu_forecast |-> Series("list", <<90, 95>>)],
     [cpu_forecast |-> Series("list", <<10, 20>>)],
     [cpu_forecast |-> Series("list", <<90, 95>>), error_burst |-> Series("list", <<60>>)]}

\* reason_about_failure: a plan that may name no action
LLMReturns ==
    {EmptyDict,
     [action |-> restart_pod, confidence |-> 80, reasoning |-> <<"p","o","d"," ","i","s"," ","c","r","a","s","h"," ","l","o","o","p","i","n","g">>],
     [action |-> rebuild_deployment, confidence |-> 90]}

\* the outcomes of one advisor call: not made, raised, or a return value
OutcomesOf(advisor, returns, event) ==
    IF IsCalled(advisor, installed, event)
    THEN {Raises} \cup {Returns(v) : v \in returns}
    ELSE {NotCalled}

\* the outcomes of the advisor calls of one _gather_intelligence
AdvisorOutcomes(event) ==
    {[rl |-> r, gnn |-> g, transformers |-> t, llm |-> l] :
        r \in OutcomesOf("rl", RLReturns, event),
        g \in OutcomesOf("gnn", GNNReturns, event),
        t \in OutcomesOf("transformers", ForecastReturns, event),
        l \in OutcomesOf("llm", LLMReturns, event)}

\* component_history after some update_component_performance calls
HistoryInputs ==
    {EmptyDict, "rl_agent" :> [count |-> 4, successes |-> 3, failures |-> 1]}

OrchIdle ==
    /\ installed = {}
    /\ component_history = EmptyDict
    /\ pe_pc = "idle"
    /\ pe = EmptyDict
    /\ trace = <<>>
    /\ RouterIdle
    /\ fq = EmptyDict
    /\ writers = <<>>
    /\ st_calls = NoShortTermCalls

OrchInit ==
    /\ installed \in SUBSET Advisors
    /\ component_history \in HistoryInputs
    /\ pe_pc = "idle"
    /\ pe = EmptyDict
    /\ trace = <<>>
    /\ RouterIdle
    /\ fq = EmptyDict
    /\ writers = <<>>
    /\ st_calls = NoShortTermCalls

\* process_event raises: the call ends without a result
Raise(error) ==
    /\ pe_pc' = "raised"
    /\ pe' = Put(pe, "raised", error)
    /\ trace' = trace

\* line 143: self.memory.store_event(event); the event object is stamped
ReceiveEvent ==
    /\ pe_pc = "idle"
    /\ \E event \in EventInputs :
         /\ recent_events' = DequeAppend(recent_events, Stamped(event, now),
                                         ShortTermMaxEvents)
         /\ pe' = "event" :> Stamped(event, now)
    /\ pe_pc' = "received"
    /\ trace' = Append(trace, "Received")
    /\ UNCHANGED <<now, recent_decisions, decision_embeddings, archives, callVars,
                   safetyVars, installed, component_history, sharedVars>>

\* line 146: routing = self.decision_router.route_event(event)
RouteEvent ==
    /\ pe_pc = "received"
    /\ pe' = Put(pe, "routing", route_event(pe["event"]))
    /\ pe_pc' = "routed"
    /\ trace' = Append(trace, "Routed")
    /\ UNCHANGED <<now, memoryVars, callVars, safetyVars, installed, component_history, sharedVars>>

\* line 150: intelligence = self._gather_intelligence(event)
GatherIntelligence ==
    /\ pe_pc = "routed"
    /\ \E outcome \in AdvisorOutcomes(pe["event"]) :
         pe' = Put(Put(pe, "intelligence", _gather_intelligence(outcome)),
                   "failed", {a \in Advisors : outcome[a].kind = "raises"})
    /\ pe_pc' = "gathered"
    /\ trace' = Append(trace, "IntelligenceGathered")
    /\ UNCHANGED <<now, memoryVars, callVars, safetyVars, installed, component_history, sharedVars>>

\* line 153: decision = self._choose_best_action(event, intelligence, routing)
ChooseBestAction ==
    /\ pe_pc = "gathered"
    /\ LET decision == _choose_best_action(pe["event"], pe["intelligence"], pe["routing"])
       IN  IF "raised" \in DOMAIN decision
           THEN Raise(decision.raised)
           ELSE /\ pe' = Put(pe, "decision", decision)
                /\ pe_pc' = "aggregated"
                /\ trace' = Append(trace, "Aggregated")
    /\ UNCHANGED <<now, memoryVars, callVars, safetyVars, installed, component_history, sharedVars>>

\* line 156: recovery_plan = self._coordinate_recovery_plan(decision, intelligence)
CoordinateRecoveryPlan ==
    /\ pe_pc = "aggregated"
    /\ pe' = Put(pe, "recovery_plan", _coordinate_recovery_plan(pe["decision"]))
    /\ pe_pc' = "planned"
    /\ trace' = Append(trace, "PlanBuilt")
    /\ UNCHANGED <<now, memoryVars, callVars, safetyVars, installed, component_history, sharedVars>>

\* lines 159-163: confidence, confidence_details = estimate_confidence(...)
EstimateConfidence ==
    /\ pe_pc = "planned"
    /\ LET e == estimate_confidence(component_history,
                    Get(pe["decision"], "recommendations", <<>>),
                    _assess_complexity(pe["event"], pe["intelligence"]),
                    Get(pe["decision"], "risk_score", 50),
                    EmptyDict)
       IN  pe' = Put(Put(pe, "confidence", e.confidence),
                     "confidence_details", e.details)
    /\ pe_pc' = "estimated"
    /\ trace' = Append(trace, "ConfidenceEstimated")
    /\ UNCHANGED <<now, memoryVars, callVars, safetyVars, installed, component_history, sharedVars>>

\* lines 166-168: safe_decision = apply_safety_checks(decision, event), then
\* its confidence and confidence_details are set from the estimate
SafetyCheck ==
    /\ pe_pc = "estimated"
    /\ sl_decision' = pe["decision"]
    /\ sl_context' = pe["event"]
    /\ sl_result' = apply_safety_checks(sl_cfg, pe["decision"], pe["event"])
    /\ sl_pc' = "checked"
    /\ IF "raised" \in DOMAIN sl_result'
       THEN Raise(sl_result'.raised)
       ELSE /\ pe' = Put(pe, "safe_decision",
                         Put(Put(sl_result', "confidence", pe["confidence"]),
                             "confidence_details", pe["confidence_details"]))
            /\ pe_pc' = "checked"
            /\ trace' = Append(trace, "SafetyChecked")
    /\ UNCHANGED <<now, memoryVars, callVars, sl_cfg, installed, component_history, sharedVars>>

\* line 171: decision_id = self.memory.store_decision(safe_decision, event)
StoreSafeDecision ==
    /\ pe_pc = "checked"
    /\ StoreDecisionBegin(pe["safe_decision"], pe["event"], <<>>)
    /\ pe_pc' = "storing"
    /\ UNCHANGED <<safetyVars, installed, component_history, sharedVars, pe, trace>>

\* store_decision returns: safe_decision is the object it stamped
DecisionStored ==
    /\ pe_pc = "storing"
    /\ StoreDecisionReturn
    /\ pe' = Put(Put(pe, "decision_id", sd_frame.decision_id),
                 "safe_decision", sd_frame.decision)
    /\ pe_pc' = "archived"
    /\ trace' = Append(trace, "Archived")
    /\ UNCHANGED <<now, memoryVars, sd_frame, archive_log, safetyVars,
                   installed, component_history, sharedVars>>

\* line 174: execution_result = self._execute_through_agent(target_agent, safe_decision)
ExecuteThroughAgent ==
    /\ pe_pc = "archived"
    /\ pe' = Put(pe, "execution_result",
                 _execute_through_agent(pe["routing"].target_agent,
                                        pe["safe_decision"], now))
    /\ pe_pc' = "dispatched"
    /\ trace' = Append(trace, "Dispatched")
    /\ UNCHANGED <<now, memoryVars, callVars, safetyVars, installed, component_history, sharedVars>>

\* lines 176-187: return result
ReturnResult ==
    /\ pe_pc = "dispatched"
    /\ pe' = Put(pe, "result",
                 [event |-> pe["event"], routing |-> pe["routing"],
                  decision |-> pe["safe_decision"],
                  recovery_plan |-> pe["recovery_plan"],
                  execution_result |-> pe["execution_result"],
                  decision_id |-> pe["decision_id"]])
    /\ pe_pc' = "returned"
    /\ UNCHANGED <<now, memoryVars, callVars, safetyVars, installed, component_history,
                   sharedVars, trace>>

Next ==
    \/ ReceiveEvent
    \/ RouteEvent
    \/ GatherIntelligence
    \/ ChooseBestAction
    \/ CoordinateRecoveryPlan
    \/ EstimateConfidence
    \/ SafetyCheck
    \/ StoreSafeDecision
    \/ (StoreDecisionShortTerm /\ UNCHANGED <<safetyVars, orchVars>>)
    \/ (StoreDecisionEmbed /\ UNCHANGED <<safetyVars, orchVars>>)
    \/ (StoreDecisionArchive /\ UNCHANGED <<safetyVars, orchVars>>)
    \/ DecisionStored
    \/ ExecuteThroughAgent
    \/ ReturnResult
    \/ (Tick /\ UNCHANGED <<safetyVars, orchVars>>)

vars == <<safetyVars, now, memoryVars, callVars, orchVars>>

SafetyNext == ApplySafetyChecks /\ UNCHANGED <<now, memoryVars, callVars, orchVars>>

InitSafety == SafetyInit /\ MemoryIdle /\ OrchIdle

SpecSafety == InitSafety /\ [][SafetyNext]_vars

InitMemory == SafetyIdle /\ MemoryIdle /\ OrchIdle

SpecMemory == InitMemory /\ [][MemoryNext]_vars

\* a fresh orchestrator: SafetyLayer(), MetaAgentMemory(), a set of advisors
Init ==
    /\ sl_cfg \in {DefaultSafetyLayer}
    /\ sl_decision = EmptyDict
    /\ sl_context = EmptyDict
    /\ sl_result = EmptyDict
    /\ sl_pc = "idle"
    /\ MemoryIdle
    /\ OrchInit

Spec == Init /\ [][Next]_vars

\* lines 211, 223, 237, 248: the advisor calls are plain calls, made with no
\* deadline; a called advisor that never responds leaves process_event
\* waiting inside _gather_intelligence
AdvisorNeverResponds ==
    /\ pe_pc = "routed"
    /\ \E a \in Advisors :
         /\ IsCalled(a, installed, pe["event"])
         /\ pe' = Put(pe, "waiting_for", a)
    /\ pe_pc' = "waiting"
    /\ UNCHANGED <<now, memoryVars, callVars, safetyVars, installed, component_history,
                   sharedVars, trace>>

\* the statements of process_event and of the store_decision it calls
Statements ==
    \/ ReceiveEvent
    \/ RouteEvent
    \/ GatherIntelligence
    \/ ChooseBestAction
    \/ CoordinateRecoveryPlan
    \/ EstimateConfidence
    \/ SafetyCheck
    \/ StoreSafeDecision
    \/ (StoreDecisionShortTerm /\ UNCHANGED <<safetyVars, orchVars>>)
    \/ (StoreDecisionEmbed /\ UNCHANGED <<safetyVars, orchVars>>)
    \/ (StoreDecisionArchive /\ UNCHANGED <<safetyVars, orchVars>>)
    \/ DecisionStored
    \/ ExecuteThroughAgent
    \/ ReturnResult

LiveNext ==
    \/ Statements
    \/ AdvisorNeverResponds
    \/ (Tick /\ UNCHANGED <<safetyVars, orchVars>>)

\* a fresh orchestrator constructed with all four advisors
InitLive ==
    /\ Init
    /\ installed = Advisors
    /\ component_history = EmptyDict

\* the thread running process_event keeps running: a statement that can be
\* executed is executed
SpecLive == InitLive /\ [][LiveNext]_vars /\ WF_vars(Statements)

otherThanRouter ==
    <<safetyVars, now, memoryVars, callVars, installed, component_history, pe_pc, pe, trace,
      fq, writers, st_calls>>

ThreadsNext ==
    \/ (TestKey /\ UNCHANGED otherThanRouter)
    \/ (InsertEntry /\ UNCHANGED otherThanRouter)
    \/ (FetchEntry /\ UNCHANGED otherThanRouter)
    \/ (LoadCount /\ UNCHANGED otherThanRouter)
    \/ (StoreCount /\ UNCHANGED otherThanRouter)
    \/ (LoadFlag /\ UNCHANGED otherThanRouter)
    \/ (StoreFlag /\ UNCHANGED otherThanRouter)

\* an idle orchestrator whose router is reported to by RouterThreads threads
InitThreads ==
    /\ SafetyIdle
    /\ MemoryIdle
    /\ installed = {}
    /\ component_history = EmptyDict
    /\ pe_pc = "idle"
    /\ pe = EmptyDict
    /\ trace = <<>>
    /\ fq = EmptyDict
    /\ writers = <<>>
    /\ st_calls = NoShortTermCalls
    /\ ThreadsInit

SpecThreads == InitThreads /\ [][ThreadsNext]_vars

otherThanWriters ==
    <<safetyVars, installed, component_history, pe_pc, pe, trace, routerVars, fq, st_calls>>

\* the calls are made within one reading of the clock: the order of the sort is
\* then the insertion order, as it is when the clock advances with every insert
WritersNext ==
    \/ \E w \in Writers : WriterCall(w) /\ UNCHANGED otherThanWriters
    \/ \E w \in Writers : WriterShortTerm(w) /\ UNCHANGED otherThanWriters
    \/ \E w \in Writers : WriterEmbed(w) /\ UNCHANGED otherThanWriters
    \/ \E w \in Writers : WriterEntry(w) /\ UNCHANGED otherThanWriters
    \/ \E w \in Writers : WriterInsert(w) /\ UNCHANGED otherThanWriters
    \/ \E w \in Writers : WriterTest(w) /\ UNCHANGED otherThanWriters
    \/ \E w \in Writers : WriterSort(w) /\ UNCHANGED otherThanWriters
    \/ \E w \in Writers : WriterSlice(w) /\ UNCHANGED otherThanWriters
    \/ \E w \in Writers : WriterDelete(w) /\ UNCHANGED otherThanWriters
    \/ \E w \in Writers : WriterLoopEnd(w) /\ UNCHANGED otherThanWriters
    \/ \E w \in Writers : WriterReturn(w) /\ UNCHANGED otherThanWriters

\* a fresh MetaAgentMemory shared by MemoryThreads threads
InitWriters ==
    /\ SafetyIdle
    /\ MemoryIdle
    /\ installed = {}
    /\ component_history = EmptyDict
    /\ pe_pc = "idle"
    /\ pe = EmptyDict
    /\ trace = <<>>
    /\ RouterIdle
    /\ fq = EmptyDict
    /\ st_calls = NoShortTermCalls
    /\ WritersIdle

SpecWriters == InitWriters /\ [][WritersNext]_vars

RouterNext ==
    \/ (ReportOutcome /\ UNCHANGED otherThanRouter)
    \/ (AdaptiveRouteEvent /\ UNCHANGED otherThanRouter)
    \/ (RouteEventCall /\ UNCHANGED otherThanRouter)
    \/ (ClassifyEventCall /\ UNCHANGED otherThanRouter)
    \/ (SupportingAgentsCall /\ UNCHANGED otherThanRouter)

\* an idle orchestrator and a fresh AdaptiveRouter
InitRouter ==
    /\ SafetyIdle
    /\ MemoryIdle
    /\ OrchIdle

SpecRouter == InitRouter /\ [][RouterNext]_vars

otherThanIndex ==
    <<safetyVars, installed, component_history, pe_pc, pe, trace, routerVars, writers, st_calls>>

SimilarNext ==
    \/ (StoreDecisionEmbedding /\ UNCHANGED otherThanIndex)
    \/ (FindSimilarDecisions /\ UNCHANGED otherThanIndex)

\* a fresh LongTermEmbeddings in an idle orchestrator
InitSimilar ==
    /\ SafetyIdle
    /\ MemoryIdle
    /\ OrchIdle

SpecSimilar == InitSimilar /\ [][SimilarNext]_vars

otherThanShortTerm ==
    <<safetyVars, installed, component_history, pe_pc, pe, trace, routerVars, writers>>

ShortTermNext ==
    \/ (StoreEvent /\ fq' = EmptyDict /\ UNCHANGED otherThanShortTerm)
    \/ (StoreRecentDecision /\ fq' = EmptyDict /\ UNCHANGED otherThanShortTerm)
    \/ (GetRecentEvents /\ UNCHANGED otherThanShortTerm)
    \/ (GetRecentDecisions /\ UNCHANGED otherThanShortTerm)
    \/ (Tick /\ UNCHANGED <<otherThanShortTerm, st_calls, fq>>)

\* a fresh ShortTermMemory in an idle orchestrator
InitShortTerm ==
    /\ SafetyIdle
    /\ MemoryIdle
    /\ OrchIdle

SpecShortTerm == InitShortTerm /\ [][ShortTermNext]_vars

RecallNext ==
    \/ (RecallStoreDecision /\ UNCHANGED otherThanIndex)
    \/ (UpdateDecisionOutcome /\ UNCHANGED otherThanIndex)
    \/ (RetrieveSimilarDecisions /\ UNCHANGED otherThanIndex)

\* a fresh MetaAgentMemory in an idle orchestrator
InitRecall ==
    /\ SafetyIdle
    /\ MemoryIdle
    /\ OrchIdle

SpecRecall == InitRecall /\ [][RecallNext]_vars

-----------------------------------------------------------------------------
(* Claims about the safety layer, checked under SpecSafety *)

SafetyReturned == sl_pc = "checked" /\ "raised" \notin DOMAIN sl_result

\* the decision names a deletion action on a protected resource
DeletesProtected(d) ==
    /\ \E i \in 1..Len(deletion_keywords) : IsSubstr(deletion_keywords[i], d.action)
    /\ "action_params" \in DOMAIN d
    /\ "resource_name" \in DOMAIN d.action_params
    /\ \E i \in 1..Len(protected_resources) :
           IsSubstr(protected_resources[i], Lower(d.action_params.resource_name))

\* C1: after apply_safety_checks, a decision whose action name contains a
\* deletion keyword and whose resource_name contains a protected substring
\* (case-insensitive) has action do_nothing and safety_corrected = true,
\* whatever its confidence and whether or not the action is allow-listed.
C1_ProtectedDeletionBlocked ==
    (SafetyReturned /\ DeletesProtected(sl_decision))
        => /\ sl_result.action = do_nothing
           /\ sl_result.safety_corrected = TRUE

\* C1 witness: an allow-listed delete_service on "Web-STORAGE" with
\* confidence 1.5 came out as do_nothing
C1_Witness ==
    /\ SafetyReturned
    /\ sl_decision.action = delete_service
    /\ InList(delete_service, sl_cfg.allowed_actions)
    /\ DeletesProtected(sl_decision)
    /\ sl_decision.action_params.resource_name = <<"W","e","b","-","S","T","O","R","A","G","E">>
    /\ Get(sl_decision, "confidence", 0) = 150
    /\ sl_result.action = do_nothing

InRange(sl, n) == sl.min_replicas <= n /\ n <= sl.max_replicas

NearerBound(sl, n) == IF n > sl.max_replicas THEN sl.max_replicas ELSE sl.min_replicas

HasTarget(d) ==
    "action_params" \in DOMAIN d /\ "target_replicas" \in DOMAIN d.action_params

\* C2 as stated: after apply_safety_checks every decision whose action
\* contains "scale" has action_params.target_replicas within
\* [min_replicas, max_replicas]; a requested target outside the range is
\* replaced by the nearer bound and safety_corrected is true.
C2_ScaleTargetWithinLimits ==
    (SafetyReturned /\ IsSubstr(<<"s","c","a","l","e">>, sl_result.action))
        => /\ HasTarget(sl_result)
           /\ InRange(sl_cfg, sl_result.action_params.target_replicas)
           /\ (HasTarget(sl_decision)
               /\ ~InRange(sl_cfg, sl_decision.action_params.target_replicas))
                 => /\ sl_result.action_params.target_replicas =
                          NearerBound(sl_cfg, sl_decision.action_params.target_replicas)
                    /\ sl_result.safety_corrected = TRUE

\* C2 amended: after apply_safety_checks every decision whose action contains
\* "scale" and that carries a target_replicas has it within the range; a
\* decision that came in with a target_replicas still carries one, and one
\* outside the range is replaced by the nearer bound with safety_corrected
\* true.  (A decision that names no target_replicas can come out without one.)
C2_ScaleTargetWithinLimitsWhenCarried ==
    (SafetyReturned /\ IsSubstr(<<"s","c","a","l","e">>, sl_result.action))
        => /\ HasTarget(sl_result)
                => InRange(sl_cfg, sl_result.action_params.target_replicas)
           /\ HasTarget(sl_decision) => HasTarget(sl_result)
           /\ (HasTarget(sl_decision)
               /\ ~InRange(sl_cfg, sl_decision.action_params.target_replicas))
                 => /\ sl_result.action_params.target_replicas =
                          NearerBound(sl_cfg, sl_decision.action_params.target_replicas)
                    /\ sl_result.safety_corrected = TRUE

\* C2 witness: scale_up to 50 replicas under the default limits came out as 20
C2_Witness ==
    /\ SafetyReturned
    /\ sl_cfg.max_replicas = max_replicas_default
    /\ sl_decision.action = scale_up
    /\ HasTarget(sl_decision)
    /\ sl_decision.action_params.target_replicas = 50
    /\ sl_result.action_params.target_replicas = max_replicas_default
    /\ sl_result.safety_corrected = TRUE

\* C3: a decision whose action is not in the allow-list comes out of
\* apply_safety_checks with action do_nothing and safety_corrected = true.
C3_DisallowedForcedToDoNothing ==
    (SafetyReturned /\ NotAllowed(sl_cfg, sl_decision.action))
        => /\ sl_result.action = do_nothing
           /\ sl_result.safety_corrected = TRUE

\* C5: every decision returned by apply_safety_checks carries
\* safety_checked = true and is_safe = not safety_corrected.
C5_SafetyMetadata ==
    SafetyReturned
        => /\ "safety_checked" \in DOMAIN sl_result
           /\ sl_result.safety_checked = TRUE
           /\ {"is_safe", "safety_corrected"} \subseteq DOMAIN sl_result
           /\ sl_result.is_safe = ~sl_result.safety_corrected

\* C5 witness: a corrected decision was returned marked unsafe
C5_Witness ==
    /\ SafetyReturned
    /\ sl_result.safety_corrected = TRUE
    /\ sl_result.is_safe = FALSE
    /\ sl_result.safety_checked = TRUE


-----------------------------------------------------------------------------
(* Claims about the memory system, checked under SpecMemory *)

DistinctIds(log) ==
    \A i, j \in 1..Len(log) : i # j => log[i].decision_id # log[j].decision_id

InArchive(id) == IndexOf(archives, id) > 0

Min(a, b) == IF a < b THEN a ELSE b

\* C7: the archive never holds more than max_size entries; after
\* max_size + k inserts with distinct ids its length is exactly max_size and
\* the survivors are the entries with the most recent timestamps: no evicted
\* entry is newer than a surviving one.
C7_ArchiveBounded ==
    /\ Len(archives) <= ArchiveMaxSize
    /\ DistinctIds(archive_log)
         => /\ Len(archives) = Min(Len(archive_log), ArchiveMaxSize)
            /\ \A i \in 1..Len(archive_log) :
                 ~InArchive(archive_log[i].decision_id)
                    => \A j \in 1..Len(archives) :
                          archive_log[i].timestamp <= archives[j].timestamp

\* C7 witness: more than max_size entries with distinct ids were archived at
\* different times, and the archive holds exactly the max_size newest
C7_Witness ==
    /\ DistinctIds(archive_log)
    /\ Len(archive_log) > ArchiveMaxSize
    /\ Len(archives) = ArchiveMaxSize
    /\ \E i \in 1..Len(archive_log) :
         /\ ~InArchive(archive_log[i].decision_id)
         /\ \A j \in 1..Len(archives) :
                archive_log[i].timestamp < archives[j].timestamp

\* C8: every store_decision call given no id returns an id that differs from
\* every id returned before, and adds one archive entry under it (n calls,
\* n <= max_size, leave n entries), also at capacity within one clock tick.
C8_GeneratedIdsUnique ==
    /\ \A i, j \in 1..Len(returned_ids) : i # j => returned_ids[i] # returned_ids[j]
    /\ (sd_pc \in {"idle", "returned"} /\ Len(returned_ids) = Len(archive_log)
        /\ Len(returned_ids) <= ArchiveMaxSize)
          => Len(archives) = Len(returned_ids)


-----------------------------------------------------------------------------
(* Claims about process_event, checked under Spec *)

\* C4: the action handed to _execute_through_agent is a member of the safety
\* layer's allow-list; a disallowed action proposed by an advisor, such as
\* the 'no_action' of the LLM fallback, is never dispatched.
C4_DispatchedActionAllowed ==
    "execution_result" \in DOMAIN pe
        => InList(pe["execution_result"].action, sl_cfg.allowed_actions)

\* the value estimate_confidence combined before clamping it
UnclampedConfidence(details) ==
    CombinedConfidence(details.agreement_score, details.historical_accuracy,
                       details.complexity_factor, details.risk_factor,
                       details.weighted_confidence)

\* C6: every decision returned by process_event has 0 <= confidence <= 1,
\* whatever the advisor confidences, the complexity and the risk score.
C6_ConfidenceInUnitInterval ==
    pe_pc = "returned"
        => /\ 0 <= pe["result"].decision["confidence"]
           /\ pe["result"].decision["confidence"] <= 100

\* C6 witness: a returned decision whose advisors reported confidences outside
\* [0, 1] and whose combined confidence was above 1 before the clamp
C6_Witness ==
    /\ pe_pc = "returned"
    /\ "agreement_score" \in DOMAIN pe["confidence_details"]
    /\ UnclampedConfidence(pe["confidence_details"]) > 100
    /\ \E i \in 1..Len(pe["decision"].recommendations) :
           pe["decision"].recommendations[i].confidence > 100
    /\ pe["result"].decision["confidence"] = 100

PipelineOrder ==
    <<"Received", "Routed", "IntelligenceGathered", "Aggregated", "ConfidenceEstimated",
      "SafetyChecked", "Archived", "PlanBuilt", "Dispatched">>

\* C9: the steps of process_event happen in the order Received, Routed,
\* IntelligenceGathered, Aggregated, ConfidenceEstimated, SafetyChecked,
\* Archived, PlanBuilt, Dispatched: the steps taken so far are always a
\* prefix of that order.
C9_PipelineOrder ==
    \A i \in 1..Len(trace) : trace[i] = PipelineOrder[i]

\* the advisor a recommendation source names
AdvisorOfSource ==
    [rl_agent |-> "rl", llm_reasoning |-> "llm", gnn |-> "gnn",
     transformers |-> "transformers"]

\* C10: whichever advisors raise during _gather_intelligence, process_event
\* does not raise, and the recommendations of the decision come only from
\* advisors that did not fail.
C10_AdvisorFailuresNeverAbort ==
    /\ pe_pc # "raised"
    /\ "decision" \in DOMAIN pe
         => \A i \in 1..Len(pe["decision"].recommendations) :
               AdvisorOfSource[pe["decision"].recommendations[i].source] \notin pe["failed"]


-----------------------------------------------------------------------------
(* Claims about process_event that need fairness, checked under SpecLive *)

\* C11: process_event eventually reaches Dispatched and returns even when an
\* advisor call never responds; stated in the weaker form that a call which
\* has begun to gather intelligence eventually ends, by a return or an error.
C11_ProcessEventEnds ==
    (pe_pc = "routed") ~> (pe_pc \in {"returned", "raised"})


-----------------------------------------------------------------------------
(* Further claims about process_event, checked under Spec *)

\* no advisor result yields a recommendation: no rl and no llm entry, no
\* failure probability, and no forecast whose mean cpu is above 80
NoRecommendationSurvives(intelligence) ==
    LET failure_probs == Get(Get(intelligence, "gnn", EmptyDict), "failure_propagation", <<>>)
        forecast == Get(Get(intelligence, "transformers", EmptyDict), "forecast", EmptyDict)
        cpu_forecast == Get(forecast, "cpu_forecast", NoSeries)
    IN  /\ "rl" \notin DOMAIN intelligence
        /\ "llm" \notin DOMAIN intelligence
        /\ failure_probs = <<>>
        /\ cpu_forecast.items = <<>> \/ Mean(cpu_forecast.items) <= 80

\* C12: when no advisor recommendation survives, process_event does not
\* fail: its decision is do_nothing with confidence 0.0, and it returns that
\* decision archived, with a recovery plan of exactly one step, dispatched.
C12_NoRecommendationStillCompletes ==
    ("intelligence" \in DOMAIN pe /\ NoRecommendationSurvives(pe["intelligence"]))
        => /\ pe_pc # "raised"
           /\ "decision" \in DOMAIN pe
                => /\ pe["decision"].action = do_nothing
                   /\ pe["decision"].confidence = 0
           /\ pe_pc = "returned"
                => /\ pe["result"].decision["action"] = do_nothing
                   /\ pe["result"].decision["confidence"] = 0
                   /\ Len(pe["result"].recovery_plan.steps) = 1
                   /\ InArchive(pe["result"].decision_id)
                   /\ pe["result"].execution_result.action = do_nothing


\* place of a recommendation source in the priority order GNN > RL >
\* Transformer forecast > LLM
PriorityRank == [gnn |-> 1, rl_agent |-> 2, transformers |-> 3, llm_reasoning |-> 4]

\* C13: _choose_best_action selects the recommendation with the maximum
\* confidence and, among several of maximum confidence, the one whose
\* advisor comes first in the order GNN > RL > Transformer forecast > LLM.
C13_MaxConfidenceThenPriority ==
    ("decision" \in DOMAIN pe /\ pe["decision"].recommendations # <<>>)
        => LET recs == pe["decision"].recommendations
               Better(i, j) ==
                   \/ recs[i].confidence > recs[j].confidence
                   \/ /\ recs[i].confidence = recs[j].confidence
                      /\ PriorityRank[recs[i].source] <= PriorityRank[recs[j].source]
               best == CHOOSE i \in 1..Len(recs) : \A j \in 1..Len(recs) : Better(i, j)
           IN  /\ pe["decision"].action = recs[best].action
               /\ pe["decision"].confidence = recs[best].confidence


-----------------------------------------------------------------------------
(* Claims about the routers *)

\* the ledger entry of a key, the dict agent_performance holds for it
LedgerEntry(key) == perf_heap[agent_performance[PerfIndex(agent_performance, key)].perf]

AllDone == \A t \in Threads : callers[t].pc = "done"

\* C14: after N concurrent calls of update_routing_performance for one key,
\* s of them reporting success, the ledger entry of the key has count = N,
\* successes = s and failures = N - s.
C14_NoLostUpdate ==
    (callers # <<>> /\ AllDone)
        => LET s == Cardinality({t \in Threads : callers[t].success})
           IN  /\ LedgerEntry(ReportedKey).count = RouterThreads
               /\ LedgerEntry(ReportedKey).successes = s
               /\ LedgerEntry(ReportedKey).failures = RouterThreads - s

-----------------------------------------------------------------------------
(* Claims on MetaAgentMemory under concurrent callers *)

\* no store_decision call is in progress and every thread has made its calls
WritersDone == \A w \in Writers : writers[w].pc = "idle" /\ writers[w].calls = WriterCalls

\* C15: when several store_decision calls run concurrently on one
\* MetaAgentMemory, every call completes without error and, once all have
\* returned, the archive holds at most max_size entries.
C15_ConcurrentStoresSafe ==
    WritersDone => /\ \A w \in Writers : ~writers[w].raised
                   /\ Len(archives) <= ArchiveMaxSize

-----------------------------------------------------------------------------
(* Claims on the routers, one caller *)

\* the success rate the ledger holds for (event_type, agent); <<0, 0>> when
\* nothing was reported
LedgerRatio(event_type, agent) ==
    IF PerfIndex(agent_performance, <<event_type, agent>>) = 0 THEN <<0, 0>>
    ELSE LET p == LedgerEntry(<<event_type, agent>>) IN <<p.successes, p.count>>

\* the query was answered from the ledger as it is now
Answered == rq # EmptyDict /\ "routing" \in DOMAIN rq
            /\ rq.routing = adaptive_route_event(agent_performance, perf_heap, rq.event)

\* C16: AdaptiveRouter.route_event returns a non-default agent only when that
\* agent's success ratio for the classified event type is greater than 0.7
\* and strictly greater than the default agent's ratio for that type, and it
\* then reports routing_confidence equal to that ratio.
C16_RerouteOnlyToStrictlyBetter ==
    (Answered /\ rq.routing.target_agent # DefaultAgent(rq.routing.event_type))
        => LET et == rq.routing.event_type
               ratio == LedgerRatio(et, rq.routing.target_agent)
               default_ratio == LedgerRatio(et, DefaultAgent(et))
           IN  /\ ratio[2] > 0
               /\ RatioGt(ratio, <<7, 10>>)
               /\ default_ratio[2] > 0 => RatioGt(ratio, default_ratio)
               /\ RatioEq(rq.routing.routing_confidence, ratio)

-----------------------------------------------------------------------------
(* Claims on the embedding index *)

\* C17: find_similar_decisions returns at most top_k entries, ordered by
\* non-increasing cosine similarity to the query, and entries of equal
\* similarity appear in the order in which they were inserted into the index.
C17_TopKSortedStable ==
    fq # EmptyDict
        => /\ Len(fq.result) <= fq.top_k
           /\ \A i \in 1..Len(fq.result) :
                LET at == IndexOf(decision_embeddings, fq.result[i][1])
                IN  /\ at > 0
                    /\ \A j \in (i + 1)..Len(fq.result) :
                         /\ fq.result[i][2] >= fq.result[j][2]
                         /\ fq.result[i][2] = fq.result[j][2]
                              => at < IndexOf(decision_embeddings, fq.result[j][1])

\* a query cut to top_k whose two results tie, a less similar entry left out
C17_Witness ==
    /\ fq # EmptyDict
    /\ fq.top_k = 2
    /\ Len(decision_embeddings) = 3
    /\ Len(fq.result) = 2
    /\ fq.result[1][2] = fq.result[2][2]
    /\ fq.result[1][2] > 0
    /\ fq.result = find_similar_decisions(decision_embeddings, fq.query_embedding, fq.top_k)
    /\ \E i \in 1..3 :
         CosineSimilarity(fq.query_embedding, decision_embeddings[i].embedding)
             < fq.result[2][2]

-----------------------------------------------------------------------------
(* Claims on the short-term memory *)

\* the last n elements of seq, all of them when it has fewer
LastN(seq, n) == SubSeq(seq, IF Len(seq) > n THEN Len(seq) - n + 1 ELSE 1, Len(seq))

\* C18: after any sequence of store_event and store_decision calls the event
\* buffer holds at most max_events items and the decision buffer at most
\* max_decisions items, and each holds exactly the most recently stored items
\* in arrival order.
C18_ShortTermRing ==
    /\ Len(recent_events) <= ShortTermMaxEvents
    /\ Len(recent_decisions) <= ShortTermMaxDecisions
    /\ recent_events = LastN(st_calls.events, ShortTermMaxEvents)
    /\ recent_decisions = LastN(st_calls.decisions, ShortTermMaxDecisions)

\* both buffers have overflowed, and the event dropped differs from those kept
C18_Witness ==
    /\ Len(st_calls.events) > ShortTermMaxEvents
    /\ Len(st_calls.decisions) > ShortTermMaxDecisions
    /\ \A i \in 1..Len(recent_events) : recent_events[i] # st_calls.events[1]
    /\ \A i \in 1..Len(recent_decisions) : recent_decisions[i] # st_calls.decisions[1]
    /\ recent_events[1] # recent_events[2]

\* the query was put to the static router
RoutedStatically ==
    /\ rq # EmptyDict
    /\ "routing" \in DOMAIN rq
    /\ "adaptive" \notin DOMAIN rq.routing

\* C19: DecisionRouter.route_event routes an event classified as unknown to
\* self_healing_agent with routing_confidence 0.5, and every event of a known
\* type to the agent of the static table (error->code, crash->self_healing,
\* overload->scaling, anomaly->monitoring, attack->security) with
\* routing_confidence 1.0.
C19_StaticRouting ==
    RoutedStatically
        => LET r == rq.routing
               Routes(et, agent, confidence) ==
                   r.event_type = et
                       => r.target_agent = agent /\ r.routing_confidence = confidence
           IN  /\ r.event_type = classify_event(rq.event)
               /\ Routes("unknown", "self_healing_agent", 50)
               /\ Routes("error", "code_agent", 100)
               /\ Routes("crash", "self_healing_agent", 100)
               /\ Routes("overload", "scaling_agent", 100)
               /\ Routes("anomaly", "monitoring_agent", 100)
               /\ Routes("attack", "security_agent", 100)
               /\ r.event_type \in EventTypes

\* scenario E: route({type: "unknown_xyz"})
C19_Witness ==
    /\ RoutedStatically
    /\ rq.event = [type |-> <<"u","n","k","n","o","w","n","_","x","y","z">>]
    /\ rq.routing.event_type = "unknown"
    /\ rq.routing.routing_confidence = 50
    /\ rq.routing.target_agent = self_healing_agent

\* the event was classified
Classified == rq # EmptyDict /\ "event_type" \in DOMAIN rq

\* the lower-cased type string of the classified event holds one of kws
TypeHas(kws) == \E kw \in kws : IsSubstr(kw, Lower(Get(rq.event, "type", <<>>)))

ErrorKeywords == {<<"e","r","r","o","r">>, <<"c","o","d","e","_","e","r","r","o","r">>}

CrashKeywords == {<<"c","r","a","s","h">>, <<"p","o","d","_","c","r","a","s","h">>, <<"f","a","i","l","u","r","e">>}

OverloadKeywords == {<<"o","v","e","r","l","o","a","d">>, <<"h","i","g","h","_","l","o","a","d">>, <<"r","e","s","o","u","r","c","e","_","e","x","h","a","u","s","t","i","o","n">>}

AnomalyKeywords == {<<"a","n","o","m","a","l","y">>, <<"u","n","u","s","u","a","l">>}

AttackKeywords == {<<"a","t","t","a","c","k">>, <<"s","e","c","u","r","i","t","y">>, <<"b","r","e","a","c","h">>}

\* C20 as stated: classify_event is a function of the type string given by the
\* keyword table: every type string containing 'crash', 'pod_crash' or
\* 'failure' classifies as crash, every one containing 'overload' or
\* 'resource_exhaustion' as overload, and one containing none of the table's
\* keywords as unknown.
C20_KeywordTable ==
    Classified
        => /\ rq.event_type = classify_event([type |-> Get(rq.event, "type", <<>>)])
           /\ TypeHas(CrashKeywords) => rq.event_type = "crash"
           /\ TypeHas({<<"o","v","e","r","l","o","a","d">>, <<"r","e","s","o","u","r","c","e","_","e","x","h","a","u","s","t","i","o","n">>}) => rq.event_type = "overload"
           /\ ~TypeHas(ErrorKeywords \cup CrashKeywords \cup OverloadKeywords
                       \cup AnomalyKeywords \cup AttackKeywords)
                => rq.event_type = "unknown"

\* C20 with the order of the table: the branches are tried in the order error,
\* crash, overload, anomaly, attack on the lower-cased type string, and the
\* first one with a keyword in the string gives the class; a string with none
\* of the keywords classifies as unknown; nothing but the type string counts.
C20_KeywordTableFirstMatch ==
    Classified
        => /\ rq.event_type = classify_event([type |-> Get(rq.event, "type", <<>>)])
           /\ TypeHas(ErrorKeywords) => rq.event_type = "error"
           /\ (TypeHas(CrashKeywords) /\ ~TypeHas(ErrorKeywords)) => rq.event_type = "crash"
           /\ (TypeHas(OverloadKeywords) /\ ~TypeHas(ErrorKeywords \cup CrashKeywords))
                => rq.event_type = "overload"
           /\ ~TypeHas(ErrorKeywords \cup CrashKeywords \cup OverloadKeywords
                       \cup AnomalyKeywords \cup AttackKeywords)
                => rq.event_type = "unknown"

\* a type with an overload keyword and a crash keyword was classified as crash
C20_Witness ==
    /\ Classified
    /\ TypeHas(OverloadKeywords)
    /\ TypeHas(CrashKeywords)
    /\ ~TypeHas(ErrorKeywords)
    /\ rq.event_type = "crash"

-----------------------------------------------------------------------------
(* Claims on the recovery plan *)

\* process_event has built the plan of its decision
PlanBuilt == "recovery_plan" \in DOMAIN pe

PlannedAction == Get(pe["decision"], "action", no_action)

StepDurations(plan) == [i \in 1..Len(plan.steps) |-> plan.steps[i].duration]

\* C21: the recovery plan for action 'scale_down' is the same as for
\* 'scale_up': three steps (compute target, apply, verify) with estimated
\* duration 185 seconds and no rollback.
C21_ScaleDownPlan ==
    (PlanBuilt /\ PlannedAction = scale_down)
        => /\ Len(pe["recovery_plan"].steps) = 3
           /\ pe["recovery_plan"].estimated_duration = 185
           /\ pe["recovery_plan"].rollback_plan = NoRollback
           /\ pe["recovery_plan"] = _coordinate_recovery_plan([action |-> scale_up])

\* C22: _coordinate_recovery_plan gives every action one plan with at least
\* one step, steps numbered 1..n, and an estimated duration equal to the sum
\* of its step durations: restart_pod 3 steps, 95 s, no rollback;
\* rebuild_deployment 4 steps, 390 s, rollback of 120 s; an action outside the
\* table (do_nothing included) a single monitor step of 60 s.
C22_PlanTable ==
    PlanBuilt
        => LET plan == pe["recovery_plan"]
               n == Len(plan.steps)
           IN  /\ n >= 1
               /\ \A i \in 1..n : plan.steps[i].step = i
               /\ plan.estimated_duration = Sum(StepDurations(plan))
               /\ PlannedAction = restart_pod
                    => n = 3 /\ plan.estimated_duration = 95 /\ plan.rollback_plan = NoRollback
               /\ PlannedAction = rebuild_deployment
                    => /\ n = 4
                       /\ plan.estimated_duration = 390
                       /\ plan.rollback_plan # NoRollback
                       /\ plan.rollback_plan.duration = 120
               /\ PlannedAction \notin {restart_pod, scale_up, scale_down, rebuild_deployment}
                    => /\ n = 1
                       /\ plan.steps[1].action = "monitor_situation"
                       /\ plan.estimated_duration = 60
                       /\ plan.rollback_plan = NoRollback

\* the plan of a rebuild_deployment decision, the one with a rollback
C22_Witness ==
    /\ PlanBuilt
    /\ PlannedAction = rebuild_deployment
    /\ Len(pe["recovery_plan"].steps) = 4
    /\ pe["recovery_plan"].rollback_plan # NoRollback

-----------------------------------------------------------------------------
(* Claims on unsafe text, checked under SpecSafety *)

\* one of the unsafe patterns occurs in the decision's action parameters
UnsafeInParams(d) ==
    "action_params" \in DOMAIN d /\ ParamsUnsafe(d.action_params)

\* one of the unsafe patterns occurs in reasoning or explanation
UnsafeInText(d) ==
    \E key \in {"reasoning", "explanation"} \cap DOMAIN d : _contains_unsafe_patterns(d[key])

\* C23: apply_safety_checks marks as unsafe (safety_corrected = true,
\* is_safe = false) every decision in which one of the fixed unsafe patterns
\* occurs in its action parameters or in one of its free-text fields
\* (reasoning, explanation).
C23_UnsafePatternsFail ==
    (SafetyReturned /\ (UnsafeInParams(sl_decision) \/ UnsafeInText(sl_decision)))
        => /\ sl_result.safety_corrected = TRUE
           /\ sl_result.is_safe = FALSE

\* the supporting agents of an event were asked for
Supported == rq # EmptyDict /\ "supporting" \in DOMAIN rq

\* C24: get_supporting_agents(event) contains the monitoring agent whenever
\* monitoring is not the primary agent of the event, contains the security
\* agent whenever the event's severity is high or critical, and never contains
\* the agent that route_event returns as target for the same event (static
\* and adaptive router).  The last clause exempts the target from the first
\* two.
C24_SupportingAgents ==
    Supported
        => /\ rq.routing.target_agent # "monitoring_agent"
                => InList("monitoring_agent", rq.supporting)
           /\ (/\ Get(rq.event, "severity", "None") \in {"high", "critical"}
               /\ rq.routing.target_agent # "security_agent")
                => InList("security_agent", rq.supporting)
           /\ ~InList(rq.routing.target_agent, rq.supporting)

-----------------------------------------------------------------------------
(* Claims on the confidence factors *)

\* the lifetime success rate of a source, 0.5 for a source the ledger has not
\* seen
RateOrDefault(source) ==
    IF source \in DOMAIN component_history /\ component_history[source].count > 0
    THEN (component_history[source].successes * 100) \div component_history[source].count
    ELSE 50

\* C25: the historical_accuracy factor of estimate_confidence is the mean, over
\* the sources of all given recommendations, of the source's lifetime
\* successes/count, where a source with no ledger history contributes 0.5 to
\* that mean (also when other sources do have history).
C25_HistoricalAccuracy ==
    ("confidence_details" \in DOMAIN pe /\ pe["decision"].recommendations # <<>>)
        => LET recs == pe["decision"].recommendations
           IN  pe["confidence_details"].historical_accuracy
                   = Mean([i \in 1..Len(recs) |-> RateOrDefault(Get(recs[i], "source", "unknown"))])

-----------------------------------------------------------------------------
(* Claims on the feedback call and the similarity lookup, checked under      *)
(* SpecRecall                                                                *)

UpdateCalled == "call" \in DOMAIN fq /\ fq.call = "update_decision_outcome"

RetrieveCalled == "call" \in DOMAIN fq /\ fq.call = "retrieve_similar_decisions"

\* the short-term buffers and the embedding index are as the call found them
RestUntouched ==
    /\ decision_embeddings = fq.before.decision_embeddings
    /\ recent_events = fq.before.recent_events
    /\ recent_decisions = fq.before.recent_decisions

\* C26: update_decision_outcome, for an id present in the archive, sets that
\* entry's outcome and success and changes nothing else (the entry's decision,
\* context and timestamp, every other entry, the archive size, the embedding
\* index); for an id that is not in the archive (never stored or already
\* evicted) it changes no state.
C26_UpdateOutcomeFrame ==
    UpdateCalled =>
        LET old == fq.before.archives
            i == IndexOf(old, fq.decision_id)
        IN  /\ RestUntouched
            /\ Len(archives) = Len(old)
            /\ \A j \in 1..Len(old) : j # i => archives[j] = old[j]
            /\ i > 0 => archives[i] = [old[i] EXCEPT !.outcome = fq.outcome,
                                                     !.success = fq.success]
            /\ i = 0 => archives = old

\* the outcome of the newer of two archived decisions was reported after the
\* oldest decision had been evicted
C26_Witness ==
    /\ UpdateCalled
    /\ Len(decision_embeddings) > Len(archives)
    /\ Len(archives) = ArchiveMaxSize
    /\ IndexOf(archives, fq.decision_id) = Len(archives)
    /\ archives[Len(archives)].success = "False"
    /\ fq.before.archives[Len(archives)].success = "None"

\* C28: after any sequence of store_decision calls, including sequences that
\* overflow archive max_size, the set of decision ids in the embedding index
\* equals the set of ids in the archive, so a similarity lookup never returns
\* an id that has no archive entry.
C28_IndexMatchesArchive ==
    /\ KeySet(decision_embeddings) = KeySet(archives)
    /\ RetrieveCalled =>
           \A i \in 1..Len(fq.similar) : fq.similar[i][1] \in KeySet(fq.before.archives)

\* C29: retrieve_similar_decisions is a read: it leaves the archive (key set
\* and every field of every entry), the embedding index and the short-term
\* buffers exactly as they were before the call.
C29_RetrieveIsRead ==
    RetrieveCalled => (archives = fq.before.archives /\ RestUntouched)

-----------------------------------------------------------------------------
(* Claims on the result of process_event *)

-----------------------------------------------------------------------------
(* Claims on reading the short-term memory, checked under SpecShortTerm *)

\* the buffer a query reads, cut down to the requested type for events
Requested ==
    IF fq.call = "get_recent_decisions" THEN recent_decisions
    ELSE IF fq.event_type = <<>> THEN recent_events
    ELSE OfType(recent_events, fq.event_type)

\* C30: get_recent_events(limit = n) and get_recent_decisions(limit = n)
\* return at most n items for every n >= 0 (none for n = 0): the n most
\* recently stored items (of the requested type, for events) in arrival order.
C30_RecentLimit ==
    ("call" \in DOMAIN fq /\ fq.call \in {"get_recent_events", "get_recent_decisions"})
        => /\ Len(fq.result) <= fq.limit
           /\ fq.result = LastN(Requested, fq.limit)

=========================================================================
